---- MODULE Spec2Model ----
(***************************************************************************)
(* Model of the resolution-and-control engine of cosmic-task-monitor       *)
(* (src/src/app/process.rs): exec-key normalisation, Steam id extraction,  *)
(* per-application aggregation, sorting, launch candidates and restart.    *)
(*                                                                         *)
(* Rust strings are modelled as sequences of one-character strings, so     *)
(* that trimming, replacing, searching and slicing are computed and not    *)
(* assumed.  Option<T> is None / Some(v).                                  *)
(***************************************************************************)
EXTENDS Integers, Sequences, FiniteSets, TLC

VARIABLES
    value,                \* the &str argument of the pure function under test
    result,               \* what the function returned ("Pending" before the call)
    calls,                \* how many times the function has been applied
    walk,                 \* steam_app_id_for_process: its arguments, its
                          \* locals, the ancestors it examined, its result
    system,               \* self.system: the process table as last refreshed
    desktop_apps_by_exec, \* self.desktop_apps_by_exec: exec key -> DesktopAppMeta
    steam_apps_by_id,     \* self.steam_apps_by_id: Steam app id -> SteamAppMeta
    process_entries,      \* self.process_entries: the aggregated entries, sorted
    sort_state,           \* self.sort_state: column and direction
    selected_process,     \* self.selected_process: the subject of an action
    steam_lookups,        \* history: per Steam id sighted, the metas that
                          \* load_steam_app_meta returned for it, in call order
    contributors,         \* history: per application id, the pids that the
                          \* last refresh folded into its group
    pc,                   \* where the action handler in progress stands
    selected,             \* the handler's clone of selected_process
    launch_candidates,    \* the handler's launch_candidates
    next_candidate,       \* launch_from_candidates: the candidate up next
    elapsed,              \* wait_for_app_exit: milliseconds slept so far
    observed_running,     \* what is_app_id_running last returned
    chains,               \* history: the launch_from_candidates calls
    signals               \* history: the signals sent

pureVars == <<value, result, calls, walk>>

engineVars == <<system, desktop_apps_by_exec, steam_apps_by_id, process_entries,
                sort_state, selected_process, steam_lookups, contributors>>

restartVars == <<pc, selected, launch_candidates, next_candidate, elapsed,
                 observed_running, chains, signals>>

vars == <<pureVars, engineVars, restartVars>>

-----------------------------------------------------------------------------
(* Option<T> *)

None == [tag |-> "None"]

Some(v) == [tag |-> "Some", value |-> v]

is_some(o) == o.tag = "Some"

Pending == [tag |-> "Pending"]

\* Option::or_else
or_else(o, other) == IF is_some(o) THEN o ELSE other

\* Option::unwrap_or / unwrap_or_else
unwrap_or(o, default) == IF is_some(o) THEN o.value ELSE default

\* Option::into_iter().collect()
into_vec(o) == IF is_some(o) THEN <<o.value>> ELSE <<>>

-----------------------------------------------------------------------------
(* str primitives of the Rust standard library, as process.rs uses them *)

\* char::is_whitespace, restricted to the white space the inputs can hold
is_whitespace(c) == c \in {" ", "\t", "\n", "\r"}

is_ascii_digit(c) == c \in {"0", "1", "2", "3", "4", "5", "6", "7", "8", "9"}

UpperChars == <<"A", "B", "C", "D", "E", "F", "G", "H", "I", "J", "K", "L", "M",
                "N", "O", "P", "Q", "R", "S", "T", "U", "V", "W", "X", "Y", "Z">>

LowerChars == <<"a", "b", "c", "d", "e", "f", "g", "h", "i", "j", "k", "l", "m",
                "n", "o", "p", "q", "r", "s", "t", "u", "v", "w", "x", "y", "z">>

is_ascii_alphabetic(c) ==
    \E i \in 1..26 : UpperChars[i] = c \/ LowerChars[i] = c

to_lowercase_char(c) ==
    IF \E i \in 1..26 : UpperChars[i] = c
    THEN LowerChars[CHOOSE i \in 1..26 : UpperChars[i] = c]
    ELSE c

\* str::to_lowercase / str::to_ascii_lowercase (they agree on ASCII)
to_lowercase(s) == [i \in 1..Len(s) |-> to_lowercase_char(s[i])]

RECURSIVE trim_start(_)
trim_start(s) ==
    IF s # <<>> /\ is_whitespace(Head(s)) THEN trim_start(Tail(s)) ELSE s

RECURSIVE trim_end(_)
trim_end(s) ==
    IF s # <<>> /\ is_whitespace(s[Len(s)])
    THEN trim_end(SubSeq(s, 1, Len(s) - 1))
    ELSE s

\* str::trim
trim(s) == trim_end(trim_start(s))

RECURSIVE trim_start_matches_char(_, _)
trim_start_matches_char(s, c) ==
    IF s # <<>> /\ Head(s) = c THEN trim_start_matches_char(Tail(s), c) ELSE s

RECURSIVE trim_end_matches_char(_, _)
trim_end_matches_char(s, c) ==
    IF s # <<>> /\ s[Len(s)] = c
    THEN trim_end_matches_char(SubSeq(s, 1, Len(s) - 1), c)
    ELSE s

\* str::trim_matches(char)
trim_matches(s, c) == trim_end_matches_char(trim_start_matches_char(s, c), c)

\* str::replace([chars], to) with a one-character replacement
replace_chars(s, from, to) ==
    [i \in 1..Len(s) |-> IF s[i] \in from THEN to ELSE s[i]]

starts_with(s, p) == Len(p) <= Len(s) /\ SubSeq(s, 1, Len(p)) = p

ends_with(s, p) ==
    Len(p) <= Len(s) /\ SubSeq(s, Len(s) - Len(p) + 1, Len(s)) = p

\* the text of s from 0-based byte offset `from` on: &s[from..]
slice_from(s, from) == SubSeq(s, from + 1, Len(s))

\* str::find(pattern): 0-based offset of the first match, or None
find(s, p) ==
    LET hits == {i \in 0..(Len(s) - Len(p)) : SubSeq(s, i + 1, i + Len(p)) = p}
    IN  IF hits = {} THEN None
        ELSE Some(CHOOSE i \in hits : \A j \in hits : i <= j)

contains(s, p) == is_some(find(s, p))

\* str::strip_suffix(..).unwrap_or(s)
strip_suffix_or_self(s, p) ==
    IF ends_with(s, p) THEN SubSeq(s, 1, Len(s) - Len(p)) ELSE s

\* str::strip_prefix
strip_prefix(s, p) ==
    IF starts_with(s, p) THEN Some(SubSeq(s, Len(p) + 1, Len(s))) ELSE None

\* str::trim_end_matches(&str): the suffix is removed as often as it occurs
RECURSIVE trim_end_matches(_, _)
trim_end_matches(s, p) ==
    IF p # <<>> /\ ends_with(s, p)
    THEN trim_end_matches(SubSeq(s, 1, Len(s) - Len(p)), p)
    ELSE s

\* str::split_whitespace, collected
RECURSIVE split_whitespace(_)
split_whitespace(s) ==
    LET t == trim_start(s)
    IN  IF t = <<>> THEN <<>>
        ELSE LET stops == {i \in 1..Len(t) : is_whitespace(t[i])}
                 end == IF stops = {} THEN Len(t) + 1
                        ELSE CHOOSE i \in stops : \A j \in stops : i <= j
             IN  <<SubSeq(t, 1, end - 1)>>
                     \o split_whitespace(SubSeq(t, end, Len(t)))

\* str::split(char), collected
RECURSIVE split_char(_, _)
split_char(s, c) ==
    LET stops == {i \in 1..Len(s) : s[i] = c}
    IN  IF stops = {} THEN <<s>>
        ELSE LET end == CHOOSE i \in stops : \A j \in stops : i <= j
             IN  <<SubSeq(s, 1, end - 1)>>
                     \o split_char(SubSeq(s, end + 1, Len(s)), c)

\* [parts].join(" ")
RECURSIVE join_space(_)
join_space(parts) ==
    IF parts = <<>> THEN <<>>
    ELSE IF Len(parts) = 1 THEN parts[1]
    ELSE parts[1] \o <<" ">> \o join_space(Tail(parts))

\* byte order of the characters the model's strings are written in
AsciiOrder ==
    <<"\t", "\n", " ", "\"", "%", "'", "-", ".", "/",
      "0", "1", "2", "3", "4", "5", "6", "7", "8", "9", ":", "=",
      "A", "B", "C", "D", "E", "F", "G", "H", "I", "J", "K", "L", "M",
      "N", "O", "P", "Q", "R", "S", "T", "U", "V", "W", "X", "Y", "Z",
      "[", "]", "_",
      "a", "b", "c", "d", "e", "f", "g", "h", "i", "j", "k", "l", "m",
      "n", "o", "p", "q", "r", "s", "t", "u", "v", "w", "x", "y", "z">>

byte_of(c) == CHOOSE i \in 1..Len(AsciiOrder) : AsciiOrder[i] = c

\* Ordering, as -1 (Less), 0 (Equal), 1 (Greater)
cmp_int(a, b) == IF a < b THEN -1 ELSE IF a > b THEN 1 ELSE 0

\* Ord for str: lexicographic on the bytes
RECURSIVE cmp_str(_, _)
cmp_str(a, b) ==
    IF a = <<>> /\ b = <<>> THEN 0
    ELSE IF a = <<>> THEN -1
    ELSE IF b = <<>> THEN 1
    ELSE IF Head(a) = Head(b) THEN cmp_str(Tail(a), Tail(b))
    ELSE cmp_int(byte_of(Head(a)), byte_of(Head(b)))

\* Ordering::then_with
then_with(first, second) == IF first # 0 THEN first ELSE second

\* Ordering::reverse
reverse(ord) == 0 - ord

\* the Normal components of a Path: empty and "." parts do not count
path_parts(path) ==
    SelectSeq(split_char(path, "/"), LAMBDA part : part # <<>> /\ part # <<".">>)

\* the last Normal component, unless the path ends in ..
file_name_of(parts) ==
    IF parts = <<>> \/ parts[Len(parts)] = <<".", ".">> THEN None
    ELSE Some(parts[Len(parts)])

\* Path::file_name
file_name(path) == file_name_of(path_parts(path))

\* the file name up to its last dot, a leading dot kept
file_stem_of(name) ==
    IF ~is_some(name) THEN None
    ELSE LET dots == {i \in 1..Len(name.value) : name.value[i] = "."}
             last == CHOOSE i \in dots : \A j \in dots : j <= i
         IN  IF dots = {} \/ last = 1 THEN name
             ELSE Some(SubSeq(name.value, 1, last - 1))

\* Path::file_stem
file_stem(path) == file_stem_of(file_name(path))

\* Path::file_stem().or_else(file_name).unwrap_or(token)
file_stem_or_self(token) ==
    unwrap_or(or_else(file_stem(token), file_name(token)), token)

-----------------------------------------------------------------------------
(* Exec-key normaliser *)

\* if normalized.is_empty() { None } else { Some(normalized) }
non_empty(normalized) ==
    IF normalized = <<>> THEN None ELSE Some(normalized)

normalize_exec_key(v) ==
    non_empty(
        trim_matches(
            to_lowercase(replace_chars(trim(v), {" ", "_", "."}, "-")),
            "-"))

-----------------------------------------------------------------------------
(* Match-token extraction and candidate keys *)

\* the closure command_stem of extract_match_token
command_stem(token) == to_lowercase(unwrap_or(file_name(token), token))

\* the loop over the KEY=VALUE and flag tokens that follow `env`
RECURSIVE skip_env_tokens(_, _)
skip_env_tokens(tokens, index) ==
    IF index < Len(tokens)
       /\ (contains(tokens[index + 1], <<"=">>)
            \/ starts_with(tokens[index + 1], <<"-">>))
    THEN skip_env_tokens(tokens, index + 1)
    ELSE index

FLATPAK_VALUE_FLAGS ==
    { <<"-", "-", "a", "r", "c", "h">>, <<"-", "-", "b", "r", "a", "n", "c", "h">>, <<"-", "-", "c", "o", "m", "m", "a", "n", "d">>, <<"-", "-", "f", "i", "l", "e", "-", "f", "o", "r", "w", "a", "r", "d", "i", "n", "g">> }

\* a mutant of skip_flatpak_flags: no flag takes a separate value
RECURSIVE skip_flatpak_flags_only(_, _)
skip_flatpak_flags_only(tokens, idx) ==
    IF idx >= Len(tokens) \/ ~starts_with(tokens[idx + 1], <<"-">>) THEN idx
    ELSE skip_flatpak_flags_only(tokens, idx + 1)

\* the loop over the flags that follow `flatpak run`
RECURSIVE skip_flatpak_flags(_, _)
skip_flatpak_flags(tokens, idx) ==
    IF idx >= Len(tokens) \/ ~starts_with(tokens[idx + 1], <<"-">>) THEN idx
    ELSE IF /\ tokens[idx + 1] \in FLATPAK_VALUE_FLAGS
            /\ idx + 1 < Len(tokens)
            /\ ~starts_with(tokens[idx + 2], <<"-">>)
         THEN skip_flatpak_flags(tokens, idx + 2)
    ELSE skip_flatpak_flags(tokens, idx + 1)

INDIRECTION_COMMANDS ==
    { <<"s", "t", "e", "a", "m">>, <<"g", "t", "k", "-", "l", "a", "u", "n", "c", "h">>, <<"x", "d", "g", "-", "o", "p", "e", "n">>, <<"s", "h">>, <<"b", "a", "s", "h">>, <<"z", "s", "h">>, <<"f", "i", "s", "h">> }

\* extract_match_token from tokens[index] on: the flatpak run target, nothing
\* for a launcher or a shell, else the token itself
match_token_at(tokens, index) ==
    IF index >= Len(tokens) THEN None
    ELSE IF /\ command_stem(tokens[index + 1]) = <<"f", "l", "a", "t", "p", "a", "k">>
            /\ index + 1 < Len(tokens)
            /\ command_stem(tokens[index + 2]) = <<"r", "u", "n">>
            /\ skip_flatpak_flags(tokens, index + 2) < Len(tokens)
         THEN Some(tokens[skip_flatpak_flags(tokens, index + 2) + 1])
    ELSE IF command_stem(tokens[index + 1]) \in INDIRECTION_COMMANDS THEN None
    ELSE Some(tokens[index + 1])

\* extract_match_token on the collected tokens: the leading env is stepped
\* over first
match_token_of(tokens) ==
    IF tokens = <<>> THEN None
    ELSE match_token_at(tokens,
             IF command_stem(tokens[1]) = <<"e", "n", "v">>
             THEN skip_env_tokens(tokens, 1) ELSE 0)

extract_match_token(v) == match_token_of(split_whitespace(v))

\* the token exec_candidate_keys and exec_primary_keys normalise: the match
\* token (or the trimmed value), unquoted, without .desktop, as a file stem
exec_token(v) ==
    file_stem_or_self(
        strip_suffix_or_self(
            trim_matches(
                trim_matches(unwrap_or(extract_match_token(v), trim(v)), "\""),
                "'"),
            <<".", "d", "e", "s", "k", "t", "o", "p">>))

CHANNEL_SUFFIXES == << <<"-", "s", "t", "a", "b", "l", "e">>, <<"-", "b", "e", "t", "a">>, <<"-", "d", "e", "v">>, <<"-", "b", "i", "n">> >>

ROLE_SUFFIXES == << <<"-", "b", "r", "o", "w", "s", "e", "r">>, <<"-", "d", "e", "s", "k", "t", "o", "p">>, <<"-", "a", "p", "p", "l", "e", "t">> >>

\* for suffix in suffixes { if alias.ends_with(suffix) { trim_end_matches } }
RECURSIVE strip_suffixes(_, _)
strip_suffixes(alias, suffixes) ==
    IF suffixes = <<>> THEN alias
    ELSE strip_suffixes(trim_end_matches(alias, Head(suffixes)), Tail(suffixes))

\* out = vec![normalized], and the alias pushed if it is new and not empty
with_alias(normalized, alias) ==
    IF alias # <<>> /\ alias # normalized THEN <<normalized, alias>>
    ELSE <<normalized>>

\* exec_candidate_keys from the normalised token on
candidate_keys_of(normalized) ==
    IF ~is_some(normalized) THEN <<>>
    ELSE with_alias(normalized.value,
                    strip_suffixes(
                        strip_suffixes(normalized.value, CHANNEL_SUFFIXES),
                        ROLE_SUFFIXES))

exec_candidate_keys(v) == candidate_keys_of(normalize_exec_key(exec_token(v)))

exec_primary_keys(v) == into_vec(normalize_exec_key(exec_token(v)))

is_exec_like_arg(arg) ==
    /\ ~(starts_with(arg, <<"-">>) \/ contains(arg, <<"=">>) \/ Len(arg) < 3)
    /\ \E i \in 1..Len(arg) : is_ascii_alphabetic(arg[i])
    /\ contains(arg, <<"/">>) \/ contains(arg, <<"-">>) \/ contains(arg, <<".">>)

\* if seen.insert(key.clone()) { keys.push(key) }, for every key of `more`
RECURSIVE push_unseen(_, _)
push_unseen(keys, more) ==
    IF more = <<>> THEN keys
    ELSE IF \E i \in 1..Len(keys) : keys[i] = Head(more)
         THEN push_unseen(keys, Tail(more))
    ELSE push_unseen(Append(keys, Head(more)), Tail(more))

\* the keys of the exec-like arguments, in argument order
RECURSIVE exec_like_arg_keys(_)
exec_like_arg_keys(cmd) ==
    IF cmd = <<>> THEN <<>>
    ELSE (IF is_exec_like_arg(Head(cmd)) THEN exec_candidate_keys(Head(cmd))
          ELSE <<>>) \o exec_like_arg_keys(Tail(cmd))

\* Path::file_stem().or_else(file_name) of the executable path, if any
exe_name(process) ==
    IF ~is_some(process.exe) THEN None
    ELSE or_else(file_stem(process.exe.value), file_name(process.exe.value))

\* if keys.is_empty() { the keys of process.name() }
keys_or_name_keys(keys, process) ==
    IF keys = <<>> THEN push_unseen(<<>>, exec_candidate_keys(process.name))
    ELSE keys

process_candidate_keys(process) ==
    keys_or_name_keys(
        push_unseen(<<>>,
            (IF is_some(exe_name(process))
             THEN exec_candidate_keys(exe_name(process).value) ELSE <<>>)
            \o (IF process.cmd # <<>>
                THEN exec_candidate_keys(join_space(process.cmd))
                         \o exec_like_arg_keys(process.cmd)
                         \o exec_candidate_keys(process.cmd[1])
                ELSE <<>>)),
        process)

-----------------------------------------------------------------------------
(* Desktop application registry *)

\* the set of the elements of a sequence
Range(seq) == {seq[i] : i \in 1..Len(seq)}

\* mime.rsplit('/').next(): the text after the last slash
mime_suffix(mime) ==
    LET parts == split_char(mime, "/") IN parts[Len(parts)]

\* normalize_exec_key(&app.id) as a set: the id key, if the id has one
app_id_keys(app) ==
    IF is_some(normalize_exec_key(app.id))
    THEN {normalize_exec_key(app.id).value} ELSE {}

\* the candidates HashSet that load_desktop_app_map collects for one descriptor
app_candidate_keys(app) ==
    (IF is_some(app.exec) THEN Range(exec_candidate_keys(app.exec.value)) ELSE {})
        \cup app_id_keys(app)
        \cup (IF is_some(app.wm_class)
              THEN Range(exec_candidate_keys(app.wm_class.value)) ELSE {})
        \cup UNION {Range(exec_candidate_keys(mime_suffix(app.mime_types[i]))) :
                        i \in 1..Len(app.mime_types)}

\* the primary_exec_keys HashSet that load_desktop_app_map collects
app_primary_exec_keys(app) ==
    LET collected ==
            (IF is_some(app.exec)
             THEN Range(exec_primary_keys(app.exec.value))
                      \cup Range(exec_candidate_keys(app.exec.value))
             ELSE {})
            \cup (IF is_some(app.wm_class)
                  THEN Range(exec_candidate_keys(app.wm_class.value)) ELSE {})
            \cup UNION {Range(exec_candidate_keys(mime_suffix(app.mime_types[i]))) :
                            i \in 1..Len(app.mime_types)}
    IN  IF collected = {} THEN app_id_keys(app) ELSE collected

\* the DesktopAppMeta built for one descriptor
desktop_app_meta(app) ==
    [app_id |-> normalize_exec_key(app.id).value,
     name |-> app.name,
     icon_handle |-> Some(app.icon),
     primary_exec_keys |-> app_primary_exec_keys(app),
     desktop_entry_id |-> Some(app.id),
     desktop_entry_path |-> app.path,
     exec_command |-> app.exec]

\* the closure rank of the sort in load_desktop_app_map
rank(meta, key) ==
    IF meta.app_id = key THEN 0
    ELSE IF key \in meta.primary_exec_keys THEN 1
    ELSE IF starts_with(meta.app_id, key) \/ starts_with(key, meta.app_id) THEN 2
    ELSE 3

abs_diff(a, b) == IF a < b THEN b - a ELSE a - b

\* the comparator of the sort in load_desktop_app_map
cmp_desktop_meta(a, b, key) ==
    then_with(cmp_int(rank(a, key), rank(b, key)),
        then_with(cmp_int(abs_diff(Len(a.app_id), Len(key)),
                          abs_diff(Len(b.app_id), Len(key))),
                  cmp_str(a.app_id, b.app_id)))

\* unique_by_app_id: of the candidates of a key, the first per app id
unique_by_app_id(candidate_list) ==
    {candidate_list[i] : i \in
        {i \in 1..Len(candidate_list) :
            \A j \in 1..(i - 1) : candidate_list[j].app_id # candidate_list[i].app_id}}

\* the descriptors whose id has a key (the others are skipped)
loadable(applications) ==
    SelectSeq(applications, LAMBDA app : is_some(normalize_exec_key(app.id)))

\* the DesktopAppMeta of each of the descriptors, in their order
metas_of(apps) == [i \in 1..Len(apps) |-> desktop_app_meta(apps[i])]

\* candidates_by_key[key]: the metas of the descriptors that have the key among
\* their candidates, in load order
candidates_by_key(loaded, key) ==
    metas_of(SelectSeq(loaded, LAMBDA app : key \in app_candidate_keys(app)))

\* candidates.sort_by(..) and candidates.remove(0)
first_sorted(candidates, key) ==
    CHOOSE a \in candidates :
        \A b \in candidates : cmp_desktop_meta(a, b, key) <= 0

\* the apps map built from the loadable descriptors
apps_of(loaded) ==
    [key \in UNION {app_candidate_keys(loaded[i]) : i \in 1..Len(loaded)} |->
        first_sorted(unique_by_app_id(candidates_by_key(loaded, key)), key)]

load_desktop_app_map(applications) == apps_of(loadable(applications))

-----------------------------------------------------------------------------
(* Steam id extraction *)

STEAM_MARKERS ==
    << <<"a", "p", "p", "i", "d", "=">>,
       <<"g", "a", "m", "e", "i", "d", "=">>,
       <<"-", "g", "a", "m", "e", "i", "d">>,
       <<"s", "t", "e", "a", "m", "_", "a", "p", "p", "_">>,
       <<"r", "u", "n", "g", "a", "m", "e", "i", "d", "/">> >>

\* the bytes extract_decimal_from steps over before the digits
ID_SEPARATORS == {" ", "=", ":", "/", "-", "\"", "'"}

\* first loop of extract_decimal_from: the index of the first digit (or the
\* end of the string) when only separators lie before it, else None
RECURSIVE skip_separators(_, _)
skip_separators(bytes, index) ==
    IF index >= Len(bytes) THEN Some(index)
    ELSE IF is_ascii_digit(bytes[index + 1]) THEN Some(index)
    ELSE IF bytes[index + 1] \in ID_SEPARATORS
         THEN skip_separators(bytes, index + 1)
    ELSE None

\* second loop of extract_decimal_from: the index after the run of digits
RECURSIVE skip_digits(_, _)
skip_digits(bytes, index) ==
    IF index < Len(bytes) /\ is_ascii_digit(bytes[index + 1])
    THEN skip_digits(bytes, index + 1)
    ELSE index

\* a mutant of extract_decimal_from: the literal "0" is not rejected
extract_decimal_from_keep_zero(v, index) ==
    LET skipped == skip_separators(v, index)
    IN  IF ~is_some(skipped) THEN None
        ELSE LET start == skipped.value
                 end == skip_digits(v, start)
             IN  IF start = end THEN None
                 ELSE Some(SubSeq(v, start + 1, end))

\* a mutant of extract_decimal_from: no separator is skipped
extract_decimal_from_no_skip(v, index) ==
    LET end == skip_digits(v, index)
        app_id == SubSeq(v, index + 1, end)
    IN  IF index = end \/ app_id = <<"0">> THEN None ELSE Some(app_id)

extract_decimal_from(v, index) ==
    LET skipped == skip_separators(v, index)
    IN  IF ~is_some(skipped) THEN None
        ELSE LET start == skipped.value
                 end == skip_digits(v, start)
                 app_id == SubSeq(v, start + 1, end)
             IN  IF start = end THEN None
                 ELSE IF app_id = <<"0">> THEN None
                 ELSE Some(app_id)

\* the while loop of extract_decimal_after_marker, entered with `offset`
RECURSIVE extract_decimal_after_marker_from(_, _, _, _)
extract_decimal_after_marker_from(original, lower, marker, offset) ==
    LET found == find(slice_from(lower, offset), marker)
    IN  IF ~is_some(found) THEN None
        ELSE LET start == offset + found.value + Len(marker)
                 app_id == extract_decimal_from(original, start)
             IN  IF is_some(app_id) THEN app_id
                 ELSE extract_decimal_after_marker_from(original, lower,
                                                        marker, start)

extract_decimal_after_marker(original, lower, marker) ==
    extract_decimal_after_marker_from(original, lower, marker, 0)

\* the for loop of extract_steam_app_id, from the m-th marker on
RECURSIVE extract_steam_app_id_from_marker(_, _, _)
extract_steam_app_id_from_marker(v, lower, m) ==
    IF m > Len(STEAM_MARKERS) THEN None
    ELSE LET app_id == extract_decimal_after_marker(v, lower, STEAM_MARKERS[m])
         IN  IF is_some(app_id) THEN app_id
             ELSE extract_steam_app_id_from_marker(v, lower, m + 1)

extract_steam_app_id(v) ==
    IF trim(v) = <<>> THEN None
    ELSE extract_steam_app_id_from_marker(v, to_lowercase(v), 1)

-----------------------------------------------------------------------------
(* Eligibility and identity resolution *)

\* std::process::id(): the monitor's own pid
SELF_PID == 10

\* the owner of the monitor, read from its own entry in the process table
current_user_id(processes) ==
    IF SELF_PID \in DOMAIN processes THEN processes[SELF_PID].user_id ELSE None

looks_like_background_component(token) ==
    LET lowered == to_lowercase(trim(token))
    IN  /\ lowered # <<>>
        /\ \/ contains(lowered, <<"d", "a", "e", "m", "o", "n">>)
           \/ contains(lowered, <<"a", "p", "p", "l", "e", "t">>)
           \/ contains(lowered, <<"h", "e", "l", "p", "e", "r">>)
           \/ contains(lowered, <<"s", "e", "r", "v", "i", "c", "e">>)

is_background_component_process(process) ==
    \/ /\ is_some(exe_name(process))
       /\ looks_like_background_component(exe_name(process).value)
    \/ /\ process.cmd # <<>>
       /\ looks_like_background_component(file_stem_or_self(process.cmd[1]))
    \/ looks_like_background_component(process.name)

EXCLUDED_APP_ID_PARTS ==
    { <<"c", "o", "s", "m", "i", "c", "a", "p", "p", "l", "e", "t">>, <<"c", "o", "s", "m", "i", "c", "-", "a", "p", "p", "l", "e", "t">>, <<"c", "o", "s", "m", "i", "c", "-", "p", "a", "n", "e", "l", "-", "b", "u", "t", "t", "o", "n">>,
      <<"c", "o", "s", "m", "i", "c", "-", "s", "t", "a", "t", "u", "s", "-", "a", "r", "e", "a">>, <<"c", "o", "s", "m", "i", "c", "-", "n", "o", "t", "i", "f", "i", "c", "a", "t", "i", "o", "n", "s">>, <<"c", "o", "s", "m", "i", "c", "-", "o", "s", "d">>,
      <<"c", "o", "s", "m", "i", "c", "-", "w", "o", "r", "k", "s", "p", "a", "c", "e", "s">>, <<"c", "o", "s", "m", "i", "c", "-", "l", "a", "u", "n", "c", "h", "e", "r">>, <<"c", "o", "s", "m", "i", "c", "-", "g", "r", "e", "e", "t", "e", "r">>,
      <<"x", "d", "g", "-", "d", "e", "s", "k", "t", "o", "p", "-", "p", "o", "r", "t", "a", "l">>, <<"d", "a", "e", "m", "o", "n">> }

\* a mutant of is_excluded_app_id: no id is excluded
is_excluded_app_id_never(app_id) == FALSE

is_excluded_app_id(app_id) ==
    \E part \in EXCLUDED_APP_ID_PARTS : contains(app_id, part)

\* the first candidate key, in derivation order, that the registry binds
RECURSIVE first_bound_key(_, _)
first_bound_key(keys, desktop_apps) ==
    IF keys = <<>> THEN None
    ELSE IF Head(keys) \in DOMAIN desktop_apps THEN Some(Head(keys))
    ELSE first_bound_key(Tail(keys), desktop_apps)

\* the first argument of the command line that carries a Steam id
RECURSIVE extract_steam_app_id_from_args(_)
extract_steam_app_id_from_args(cmd) ==
    IF cmd = <<>> THEN None
    ELSE IF is_some(extract_steam_app_id(Head(cmd)))
         THEN extract_steam_app_id(Head(cmd))
    ELSE extract_steam_app_id_from_args(Tail(cmd))

extract_steam_app_id_from_process(process) ==
    IF is_some(extract_steam_app_id(process.name))
    THEN extract_steam_app_id(process.name)
    ELSE IF process.cmd = <<>> THEN None
    ELSE IF is_some(extract_steam_app_id(process.cmd[1]))
         THEN extract_steam_app_id(process.cmd[1])
    ELSE IF is_some(extract_steam_app_id(join_space(process.cmd)))
         THEN extract_steam_app_id(join_space(process.cmd))
    ELSE extract_steam_app_id_from_args(process.cmd)

-----------------------------------------------------------------------------
(* The environment: processes the OS may report, installed descriptors, *)
(* Steam library states                                                  *)

\* a sysinfo::Process as the engine reads it
ProcessSample(pid, parent, user_id, exe, cmd, name, cpu_usage, memory, tasks) ==
    [pid |-> pid, parent |-> parent, user_id |-> user_id, exe |-> exe,
     cmd |-> cmd, name |-> name, cpu_usage |-> cpu_usage, memory |-> memory,
     tasks |-> tasks]

FirefoxExe == <<"/", "u", "s", "r", "/", "l", "i", "b", "/", "f", "i", "r", "e", "f", "o", "x", "/", "f", "i", "r", "e", "f", "o", "x">>

\* every process the OS may report, by pid
ProcessCatalogue ==
    (10 :> ProcessSample(10, None, Some(1000),
                Some(<<"/", "u", "s", "r", "/", "b", "i", "n", "/", "c", "o", "s", "m", "i", "c", "-", "t", "a", "s", "k", "-", "m", "o", "n", "i", "t", "o", "r">>),
                << <<"c", "o", "s", "m", "i", "c", "-", "t", "a", "s", "k", "-", "m", "o", "n", "i", "t", "o", "r">> >>, <<"c", "o", "s", "m", "i", "c", "-", "t", "a", "s", "k", "-", "m", "o", "n">>, 10, 50, Some(4)))
    @@ (20 :> ProcessSample(20, None, Some(1000), Some(FirefoxExe),
                << FirefoxExe >>, <<"f", "i", "r", "e", "f", "o", "x">>, 120, 900, Some(3)))
    @@ (21 :> ProcessSample(21, Some(20), Some(1000), Some(FirefoxExe),
                << FirefoxExe, <<"-", "c", "o", "n", "t", "e", "n", "t", "p", "r", "o", "c">>, <<"/", "o", "p", "t", "/", "s", "t", "e", "a", "m">>, <<"A", "p", "p", "I", "d", "=", "4", "4", "0">> >>,
                <<"W", "e", "b", " ", "C", "o", "n", "t", "e", "n", "t">>, 150, 400, None))
    @@ (30 :> ProcessSample(30, None, Some(1000), Some(<<"/", "s", "t", "e", "a", "m", "/", "r", "e", "a", "p", "e", "r">>),
                << <<"r", "e", "a", "p", "e", "r">>, <<"S", "t", "e", "a", "m", "L", "a", "u", "n", "c", "h">>, <<"A", "p", "p", "I", "d", "=", "7", "3", "0">>, <<"-", "-">>, <<"/", "g", "a", "m", "e", "s", "/", "c", "s", "2">> >>,
                <<"r", "e", "a", "p", "e", "r">>, 0, 10, Some(0)))
    @@ (31 :> ProcessSample(31, Some(30), Some(1000), Some(<<"/", "g", "a", "m", "e", "s", "/", "c", "s", "2">>),
                << <<"/", "g", "a", "m", "e", "s", "/", "c", "s", "2">> >>, <<"c", "s", "2">>, 250, 2000, Some(8)))
    @@ (32 :> ProcessSample(32, None, Some(1000), Some(<<"/", "g", "a", "m", "e", "s", "/", "t", "f", "2">>),
                << <<"/", "g", "a", "m", "e", "s", "/", "t", "f", "2">>, <<"-", "g", "a", "m", "e", "i", "d">>, <<"4", "4", "0">> >>, <<"t", "f", "2">>, 120, 900, Some(3)))
    @@ (40 :> ProcessSample(40, None, Some(0), Some(FirefoxExe),
                << <<"f", "i", "r", "e", "f", "o", "x">> >>, <<"f", "i", "r", "e", "f", "o", "x">>, 40, 300, Some(2)))
    @@ (50 :> ProcessSample(50, None, Some(1000), Some( <<"/", "u", "s", "r", "/", "l", "i", "b", "e", "x", "e", "c", "/", "x", "d", "g", "-", "d", "e", "s", "k", "t", "o", "p", "-", "p", "o", "r", "t", "a", "l", "-", "g", "t", "k">> ),
                << <<"/", "u", "s", "r", "/", "l", "i", "b", "e", "x", "e", "c", "/", "x", "d", "g", "-", "d", "e", "s", "k", "t", "o", "p", "-", "p", "o", "r", "t", "a", "l", "-", "g", "t", "k">> >>, <<"x", "d", "g", "-", "d", "e", "s", "k", "t", "o", "p", "-", "p", "o", "r">>, 20, 700, Some(5)))
    @@ (51 :> ProcessSample(51, None, Some(1000), Some( <<"/", "u", "s", "r", "/", "b", "i", "n", "/", "d", "u", "i">> ),
                << <<"/", "u", "s", "r", "/", "b", "i", "n", "/", "d", "u", "i">> >>, <<"d", "u", "i">>, 30, 1200, Some(2)))
    @@ (33 :> ProcessSample(33, Some(32), Some(1000), Some( <<"/", "g", "a", "m", "e", "s", "/", "E", "p", "i", "c", "W", "e", "b", "H", "e", "l", "p", "e", "r">> ),
                << <<"/", "g", "a", "m", "e", "s", "/", "E", "p", "i", "c", "W", "e", "b", "H", "e", "l", "p", "e", "r">> >>, <<"E", "p", "i", "c", "W", "e", "b", "H", "e", "l", "p", "e", "r">>, 10, 100, Some(1)))

MaxProcs == 2

\* the monitor, the browser, the games and another user's browser
DESKTOP_PIDS == {10, 20, 21, 30, 31, 32, 40}

\* the monitor, the browsers and two components of the desktop shell
SHELL_PIDS == {10, 20, 40, 50, 51}

\* the tables that hold the given processes of the catalogue
TablesOf(pid_sets) == {[pid \in pids |-> ProcessCatalogue[pid]] : pids \in pid_sets}

\* the process tables a refresh may find: up to MaxProcs catalogue processes
ProcessTables ==
    TablesOf({S \in SUBSET DESKTOP_PIDS : Cardinality(S) <= MaxProcs})

\* the process tables of a session in which shell components run
ShellTables ==
    TablesOf({S \in SUBSET SHELL_PIDS : Cardinality(S) <= MaxProcs + 1})

\* a descriptor as desktop::load_applications returns it
InstalledApplications ==
    << [id |-> <<"f", "i", "r", "e", "f", "o", "x">>, name |-> <<"F", "i", "r", "e", "f", "o", "x">>, icon |-> "firefox",
        exec |-> Some(<<"/", "u", "s", "r", "/", "l", "i", "b", "/", "f", "i", "r", "e", "f", "o", "x", "/", "f", "i", "r", "e", "f", "o", "x", " ", "%", "u">>), wm_class |-> None,
        mime_types |-> << <<"t", "e", "x", "t", "/", "h", "t", "m", "l">> >>,
        path |-> Some(<<"/", "u", "s", "r", "/", "s", "h", "a", "r", "e", "/", "a", "p", "p", "l", "i", "c", "a", "t", "i", "o", "n", "s", "/", "f", "i", "r", "e", "f", "o", "x", ".", "d", "e", "s", "k", "t", "o", "p">>)],
       [id |-> <<"s", "t", "e", "a", "m">>, name |-> <<"S", "t", "e", "a", "m">>, icon |-> "steam",
        exec |-> Some(<<"/", "u", "s", "r", "/", "b", "i", "n", "/", "s", "t", "e", "a", "m", " ", "%", "U">>), wm_class |-> None,
        mime_types |-> <<>>,
        path |-> Some(<<"/", "u", "s", "r", "/", "s", "h", "a", "r", "e", "/", "a", "p", "p", "l", "i", "c", "a", "t", "i", "o", "n", "s", "/", "s", "t", "e", "a", "m", ".", "d", "e", "s", "k", "t", "o", "p">>)],
       [id |-> <<"x", "d", "g", "-", "d", "e", "s", "k", "t", "o", "p", "-", "p", "o", "r", "t", "a", "l", "-", "g", "t", "k">>, name |-> <<"P", "o", "r", "t", "a", "l">>, icon |-> "portal",
        exec |-> Some( <<"/", "u", "s", "r", "/", "l", "i", "b", "e", "x", "e", "c", "/", "x", "d", "g", "-", "d", "e", "s", "k", "t", "o", "p", "-", "p", "o", "r", "t", "a", "l", "-", "g", "t", "k">> ), wm_class |-> None,
        mime_types |-> <<>>, path |-> None],
       [id |-> <<"o", "r", "g", ".", "D", "a", "e", "m", "o", "n", "-", "U", "I">>, name |-> <<"D", "a", "e", "m", "o", "n", " ", "U", "I">>, icon |-> "dui",
        exec |-> Some( <<"/", "u", "s", "r", "/", "b", "i", "n", "/", "d", "u", "i">> ), wm_class |-> None,
        mime_types |-> <<>>, path |-> None] >>

SteamAppIds == { <<"7", "3", "0">>, <<"4", "4", "0">> }

\* what the Steam library holds for each app id: the manifest's name and the
\* cached icon, or neither
SteamLibraries ==
    { [id \in SteamAppIds |-> [manifest_name |-> None, icon_path |-> None]],
      ( <<"7", "3", "0">> :> [manifest_name |-> Some(<<"C", "o", "u", "n", "t", "e", "r", "-", "S", "t", "r", "i", "k", "e", " ", "2">>),
                  icon_path |-> Some("librarycache/730/logo.png")] )
      @@ ( <<"4", "4", "0">> :> [manifest_name |-> Some(<<"T", "e", "a", "m", " ", "F", "o", "r", "t", "r", "e", "s", "s", " ", "2">>),
                     icon_path |-> Some("librarycache/440/logo.png")] ) }

\* self.system.cpus().len().max(1)
cpu_core_count == 2

-----------------------------------------------------------------------------
(* Resolution of a process of the table *)

\* process_candidate_keys, computed once per catalogue process
candidate_keys_by_pid ==
    [pid \in DOMAIN ProcessCatalogue |->
        process_candidate_keys(ProcessCatalogue[pid])]

\* extract_steam_app_id_from_process, computed once per catalogue process
steam_app_id_by_pid ==
    [pid \in DOMAIN ProcessCatalogue |->
        extract_steam_app_id_from_process(ProcessCatalogue[pid])]

\* is_background_component_process, computed once per catalogue process
background_by_pid ==
    [pid \in DOMAIN ProcessCatalogue |->
        is_background_component_process(ProcessCatalogue[pid])]

desktop_app_for_process(process, desktop_apps) ==
    LET key == first_bound_key(candidate_keys_by_pid[process.pid], desktop_apps)
    IN  IF is_some(key) THEN Some(desktop_apps[key.value]) ELSE None

STEAM_PARENT_DEPTH == 12

\* extract_steam_app_id_from_process(process), looked up for a catalogue
\* process
steam_app_id_of_process(process) ==
    IF process.pid \in DOMAIN ProcessCatalogue
       /\ ProcessCatalogue[process.pid] = process
    THEN steam_app_id_by_pid[process.pid]
    ELSE extract_steam_app_id_from_process(process)

\* the while loop of steam_app_id_for_process
RECURSIVE steam_app_id_of_ancestors(_, _, _, _)
steam_app_id_of_ancestors(parent, visited, depth, processes) ==
    IF ~is_some(parent) THEN None
    ELSE IF depth >= STEAM_PARENT_DEPTH \/ parent.value \in visited THEN None
    ELSE IF parent.value \notin DOMAIN processes THEN None
    ELSE IF is_some(steam_app_id_of_process(processes[parent.value]))
         THEN steam_app_id_of_process(processes[parent.value])
    ELSE steam_app_id_of_ancestors(processes[parent.value].parent,
                                   visited \cup {parent.value}, depth + 1,
                                   processes)

steam_app_id_for_process(process, processes) ==
    IF is_some(steam_app_id_of_process(process))
    THEN steam_app_id_of_process(process)
    ELSE steam_app_id_of_ancestors(process.parent, {}, 0, processes)

STEAM_APP_PREFIX == <<"s", "t", "e", "a", "m", "-", "a", "p", "p", "-">>

resolved_app_id_for_process(process, processes, desktop_apps) ==
    IF is_some(desktop_app_for_process(process, desktop_apps))
    THEN Some(desktop_app_for_process(process, desktop_apps).value.app_id)
    ELSE IF is_some(steam_app_id_for_process(process, processes))
         THEN Some(STEAM_APP_PREFIX
                      \o steam_app_id_for_process(process, processes).value)
    ELSE None

\* is_program_process, with the background check computed once per process
is_program_process(process, user_id) ==
    /\ is_some(user_id) => process.user_id = user_id
    /\ is_some(process.exe)
    /\ process.exe.value # <<>>
    /\ trim(process.name) # <<>>
    /\ ~starts_with(process.name, <<"[">>)
    /\ ~background_by_pid[process.pid]

\* the eligible_pids of refresh_processes
eligible_pids(processes) ==
    {pid \in DOMAIN processes :
        is_program_process(processes[pid], current_user_id(processes))}

-----------------------------------------------------------------------------
(* Aggregation (refresh_processes) *)

\* a mutant of clamp: the value is left as it is
clamp_nothing(x, lo, hi) == x

\* f32::clamp
clamp(x, lo, hi) == IF x < lo THEN lo ELSE IF x > hi THEN hi ELSE x

load_steam_app_meta(app_id, default_icon, library) ==
    [name |-> IF is_some(library[app_id].manifest_name)
              THEN library[app_id].manifest_name.value
              ELSE <<"S", "t", "e", "a", "m", " ", "A", "p", "p", " ">> \o app_id,
     icon_handle |-> IF is_some(library[app_id].icon_path)
                     THEN library[app_id].icon_path
                     ELSE default_icon]

\* a mutant of or_insert_with: the entry is loaded again and overwritten
or_insert_with_reloading(steam_apps, app_id, meta) ==
    [id \in DOMAIN steam_apps \cup {app_id} |->
        IF id = app_id THEN meta ELSE steam_apps[id]]

\* steam_apps_by_id.entry(id).or_insert_with(|| load_steam_app_meta(..))
or_insert_with(steam_apps, app_id, meta) ==
    IF app_id \in DOMAIN steam_apps THEN steam_apps
    ELSE [id \in DOMAIN steam_apps \cup {app_id} |->
            IF id = app_id THEN meta ELSE steam_apps[id]]

\* .get("steam").and_then(|meta| meta.icon_handle.clone())
steam_icon_handle(desktop_apps) ==
    IF <<"s", "t", "e", "a", "m">> \in DOMAIN desktop_apps
    THEN desktop_apps[<<"s", "t", "e", "a", "m">>].icon_handle
    ELSE None

\* a mutant of matched_app: a Steam id found for the process goes before its
\* desktop match
matched_app_steam_first(desktop, steam_app_id, default_icon, steam_apps, library) ==
    IF is_some(steam_app_id)
    THEN LET id == steam_app_id.value
             cache == or_insert_with(steam_apps, id,
                          load_steam_app_meta(id, default_icon, library))
         IN  [matched |-> Some([app_id |-> STEAM_APP_PREFIX \o id,
                                name |-> cache[id].name,
                                icon_handle |-> cache[id].icon_handle]),
              steam_apps |-> cache,
              sighted |-> Some(id),
              looked_up |-> IF id \in DOMAIN steam_apps THEN None
                            ELSE Some(load_steam_app_meta(id, default_icon,
                                                          library))]
    ELSE IF is_some(desktop)
    THEN [matched |-> Some([app_id |-> desktop.value.app_id,
                            name |-> desktop.value.name,
                            icon_handle |-> desktop.value.icon_handle]),
          steam_apps |-> steam_apps, sighted |-> None, looked_up |-> None]
    ELSE [matched |-> None, steam_apps |-> steam_apps, sighted |-> None,
          looked_up |-> None]

\* the match expression of refresh_processes on the desktop match and the
\* Steam id found for a process
matched_app(desktop, steam_app_id, default_icon, steam_apps, library) ==
    IF is_some(desktop)
    THEN [matched |-> Some([app_id |-> desktop.value.app_id,
                            name |-> desktop.value.name,
                            icon_handle |-> desktop.value.icon_handle]),
          steam_apps |-> steam_apps, sighted |-> None, looked_up |-> None]
    ELSE IF is_some(steam_app_id)
    THEN LET id == steam_app_id.value
             cache == or_insert_with(steam_apps, id,
                          load_steam_app_meta(id, default_icon, library))
         IN  [matched |-> Some([app_id |-> STEAM_APP_PREFIX \o id,
                                name |-> cache[id].name,
                                icon_handle |-> cache[id].icon_handle]),
              steam_apps |-> cache,
              sighted |-> Some(id),
              looked_up |-> IF id \in DOMAIN steam_apps THEN None
                            ELSE Some(load_steam_app_meta(id, default_icon,
                                                          library))]
    ELSE [matched |-> None, steam_apps |-> steam_apps, sighted |-> None,
          looked_up |-> None]

\* the (app_id, name, icon) a process is matched to, if any, and the Steam
\* cache after the match
match_process(process, processes, desktop_apps, steam_apps, library) ==
    matched_app(desktop_app_for_process(process, desktop_apps),
                steam_app_id_for_process(process, processes),
                steam_icon_handle(desktop_apps), steam_apps, library)

\* a mutant of fold_process: the resident sizes are summed
fold_process_summing_rss(groups, app, process) ==
    LET share == clamp(process.cpu_usage \div cpu_core_count, 0, 100)
        tasks == IF is_some(process.tasks) THEN process.tasks.value ELSE 1
        entry == IF app.app_id \in DOMAIN groups THEN groups[app.app_id]
                 ELSE [name |-> app.name, icon_handle |-> app.icon_handle,
                       pid |-> process.pid, cpu_percent |-> 0,
                       rss_bytes |-> 0, threads |-> 0]
        folded == [entry EXCEPT
                      !.cpu_percent = entry.cpu_percent + share,
                      !.pid = IF process.pid < entry.pid THEN process.pid
                              ELSE entry.pid,
                      !.rss_bytes = entry.rss_bytes + process.memory,
                      !.threads = entry.threads + tasks]
    IN  [id \in DOMAIN groups \cup {app.app_id} |->
            IF id = app.app_id THEN folded ELSE groups[id]]

\* groups.entry(app_id).or_insert_with(..) and the four updates of the entry
fold_process(groups, app, process) ==
    LET share == clamp(process.cpu_usage \div cpu_core_count, 0, 100)
        tasks == IF is_some(process.tasks) THEN process.tasks.value ELSE 1
        entry == IF app.app_id \in DOMAIN groups THEN groups[app.app_id]
                 ELSE [name |-> app.name, icon_handle |-> app.icon_handle,
                       pid |-> process.pid, cpu_percent |-> 0,
                       rss_bytes |-> process.memory, threads |-> 0]
        folded == [entry EXCEPT
                      !.cpu_percent = entry.cpu_percent + share,
                      !.pid = IF process.pid < entry.pid THEN process.pid
                              ELSE entry.pid,
                      !.rss_bytes = IF process.memory > entry.rss_bytes
                                    THEN process.memory ELSE entry.rss_bytes,
                      !.threads = entry.threads + tasks]
    IN  [id \in DOMAIN groups \cup {app.app_id} |->
            IF id = app.app_id THEN folded ELSE groups[id]]

\* the history of load_steam_app_meta calls, with one more sighting of a
\* Steam id and the meta loaded for it, if one was
logged(lookups, app_id, looked_up) ==
    [id \in DOMAIN lookups \cup {app_id} |->
        LET before == IF id \in DOMAIN lookups THEN lookups[id] ELSE <<>>
        IN  IF id = app_id /\ is_some(looked_up)
            THEN Append(before, looked_up.value)
            ELSE before]

\* the history of the groups' members, with one more process folded in
folded_into(folded, app_id, pid) ==
    [id \in DOMAIN folded \cup {app_id} |->
        (IF id \in DOMAIN folded THEN folded[id] ELSE {})
            \cup (IF id = app_id THEN {pid} ELSE {})]

\* the rest of the loop body once the process is matched: the Steam cache
\* and its history move on, and the process is folded into its group unless
\* it is unmatched or excluded
group_matched(acc, process, found) ==
    LET seen == [acc EXCEPT
                    !.steam_apps = found.steam_apps,
                    !.lookups = IF is_some(found.sighted)
                                THEN logged(acc.lookups, found.sighted.value,
                                            found.looked_up)
                                ELSE acc.lookups]
    IN  IF ~is_some(found.matched) THEN seen
        ELSE IF is_excluded_app_id(found.matched.value.app_id) THEN seen
        ELSE [seen EXCEPT
                 !.groups = fold_process(acc.groups, found.matched.value,
                                         process),
                 !.folded = folded_into(acc.folded,
                                        found.matched.value.app_id, process.pid)]

\* the loop body for one eligible process
aggregate_process(acc, process, processes, desktop_apps, library) ==
    IF candidate_keys_by_pid[process.pid] = <<>> THEN acc
    ELSE group_matched(acc, process,
             match_process(process, processes, desktop_apps, acc.steam_apps,
                           library))

lowest(pids) == CHOOSE p \in pids : \A q \in pids : p <= q

\* the loop over eligible_pids; acc holds the groups, the Steam cache and
\* the history of load_steam_app_meta calls
RECURSIVE aggregate_from(_, _, _, _, _)
aggregate_from(pids, acc, processes, desktop_apps, library) ==
    IF pids = {} THEN acc
    ELSE aggregate_from(pids \ {lowest(pids)},
             aggregate_process(acc, processes[lowest(pids)], processes,
                               desktop_apps, library),
             processes, desktop_apps, library)

\* the ProcessEntry values built from the groups
entries_of(groups) ==
    {[app_id |-> app_id,
      display_name |-> groups[app_id].name,
      name |-> groups[app_id].name,
      pid |-> groups[app_id].pid,
      icon_handle |-> groups[app_id].icon_handle,
      cpu_percent |-> clamp(groups[app_id].cpu_percent, 0, 100),
      rss_bytes |-> groups[app_id].rss_bytes,
      threads |-> IF groups[app_id].threads < 1 THEN 1
                  ELSE groups[app_id].threads] : app_id \in DOMAIN groups}

-----------------------------------------------------------------------------
(* Sort engine *)

SortColumns == {"Name", "Cpu", "Pid", "Ram", "Threads"}

\* the match on sort_state.column: the comparison on the sort column
compare_column(a, b, column) ==
    CASE column = "Name" ->
            then_with(cmp_str(to_lowercase(a.name), to_lowercase(b.name)),
                      cmp_str(a.name, b.name))
      [] column = "Cpu" -> cmp_int(a.cpu_percent, b.cpu_percent)
      [] column = "Pid" -> cmp_int(a.pid, b.pid)
      [] column = "Ram" -> cmp_int(a.rss_bytes, b.rss_bytes)
      [] column = "Threads" -> cmp_int(a.threads, b.threads)

\* match sort_state.direction { Asc => primary, Desc => primary.reverse() }
directed(primary, direction) ==
    IF direction = "Asc" THEN primary ELSE reverse(primary)

\* a mutant of compare_entries: the direction is applied to the whole
\* comparison, tie-breaks included
compare_entries_all_reversed(a, b, sort) ==
    directed(
        then_with(compare_column(a, b, sort.column),
            then_with(cmp_int(b.rss_bytes, a.rss_bytes),
                then_with(cmp_int(b.cpu_percent, a.cpu_percent),
                          cmp_int(a.pid, b.pid)))),
        sort.direction)

\* the closure given to sort_by in sort_process_entries
compare_entries(a, b, sort) ==
    then_with(directed(compare_column(a, b, sort.column), sort.direction),
        then_with(cmp_int(b.rss_bytes, a.rss_bytes),
            then_with(cmp_int(b.cpu_percent, a.cpu_percent),
                      cmp_int(a.pid, b.pid))))

\* slice::sort_by is stable: an element goes behind every element that
\* does not compare greater than it
\* entry put before the first of the positions `greater`, else at the end
insert_at(sorted, entry, greater) ==
    IF greater = {} THEN Append(sorted, entry)
    ELSE SubSeq(sorted, 1, lowest(greater) - 1) \o <<entry>>
             \o SubSeq(sorted, lowest(greater), Len(sorted))

insert_stable(sorted, entry, sort) ==
    insert_at(sorted, entry,
              {i \in 1..Len(sorted) :
                  compare_entries(sorted[i], entry, sort) > 0})

RECURSIVE sort_from(_, _, _)
sort_from(sorted, rest, sort) ==
    IF rest = <<>> THEN sorted
    ELSE sort_from(insert_stable(sorted, Head(rest), sort), Tail(rest), sort)

\* a mutant of sort_process_entries: the entries are left as they come
sort_process_entries_left_alone(entries, sort) == entries

sort_process_entries(entries, sort) == sort_from(<<>>, entries, sort)

default_direction(column) == IF column = "Name" THEN "Asc" ELSE "Desc"

\* the orders in which a HashMap may hand out its entries
RECURSIVE Orderings(_)
Orderings(S) ==
    IF S = {} THEN {<<>>}
    ELSE UNION {{<<x>> \o rest : rest \in Orderings(S \ {x})} : x \in S}

-----------------------------------------------------------------------------
(* Bounded inputs *)

RECURSIVE SeqsUpTo(_, _)
SeqsUpTo(S, n) ==
    IF n = 0 THEN {<<>>}
    ELSE LET shorter == SeqsUpTo(S, n - 1)
         IN  shorter \cup {Append(s, c) : s \in shorter, c \in S}

MaxKeyLen == 3

KeyAlphabet == {"a", "B", "-", "_", ".", " ", "\t"}

RECURSIVE Concat(_)
Concat(parts) ==
    IF parts = <<>> THEN <<>> ELSE Head(parts) \o Concat(Tail(parts))

MaxFragments == 4

SteamFragments ==
    { <<"a", "p", "p", "i", "d", "=">>,
      <<"A", "p", "p", "I", "d", "=">>,
      <<"g", "a", "m", "e", "i", "d", "=">>,
      <<"-", "g", "a", "m", "e", "i", "d">>,
      <<"s", "t", "e", "a", "m", "_", "a", "p", "p", "_">>,
      <<"r", "u", "n", "g", "a", "m", "e", "i", "d", "/">>,
      <<" ">>, <<"x">>, <<"0">>, <<"7">> }

ReaperCmdline ==
    <<"S", "t", "e", "a", "m", "L", "a", "u", "n", "c", "h", " ", "A", "p", "p",
      "I", "d", "=", "1", "9", "0", "3", "3", "4", "0", " ", "-", "-", " ", "p",
      "r", "o", "t", "o", "n", " ", "w", "a", "i", "t", "f", "o", "r", "e", "x",
      "i", "t", "a", "n", "d", "r", "u", "n">>

GameOverlayCmdline ==
    <<"g", "a", "m", "e", "o", "v", "e", "r", "l", "a", "y", "u", "i", " ", "-",
      "p", "i", "d", " ", "3", "3", "3", "3", "2", "2", " ", "-", "s", "t", "e",
      "a", "m", "p", "i", "d", " ", "3", "2", "7", "6", "1", "4", " ", "-", "g",
      "a", "m", "e", "i", "d", " ", "1", "9", "0", "3", "3", "4", "0">>

SteamAppToken ==
    <<"s", "t", "e", "a", "m", "_", "a", "p", "p", "_", "7", "3", "0">>

SteamInputs ==
    {Concat(parts) : parts \in SeqsUpTo(SteamFragments, MaxFragments)}
        \cup {ReaperCmdline, GameOverlayCmdline, SteamAppToken,
              <<" ", "\t">>}

-----------------------------------------------------------------------------
(* Spec: the engine driven by refresh ticks and sort toggles *)

\* load_desktop_app_map() over the installed descriptors, computed once
installed_desktop_apps == load_desktop_app_map(InstalledApplications)

\* the fields refresh_processes assigns once the loop is done
refreshed_fields(table, done) ==
    [desktop_apps_by_exec |-> installed_desktop_apps,
     system |-> table,
     steam_apps_by_id |-> done.steam_apps,
     steam_lookups |-> done.lookups,
     contributors |-> done.folded,
     entries |-> entries_of(done.groups)]

\* a mutant of refresh_processes: the entries are computed from a table read
\* earlier, in which the browser ran
refresh_processes_of_stale_table(table, library, steam_apps, lookups) ==
    refreshed_fields(table,
        aggregate_from({20},
            [groups |-> <<>>, steam_apps |-> steam_apps, lookups |-> lookups,
             folded |-> <<>>],
            [pid \in {20} |-> ProcessCatalogue[pid]], installed_desktop_apps,
            library))

\* refresh_processes up to the final sort: the fields it assigns, given the
\* process table and Steam library it finds
refresh_processes(table, library, steam_apps, lookups) ==
    refreshed_fields(table,
        aggregate_from(eligible_pids(table),
            [groups |-> <<>>, steam_apps |-> steam_apps, lookups |-> lookups,
             folded |-> <<>>],
            table, installed_desktop_apps, library))

\* steam_app_id_for_process has not been called
NoWalk ==
    [pc |-> "idle", processes |-> <<>>, steam_ids |-> <<>>, pid |-> 0,
     parent |-> None, visited |-> {}, depth |-> 0, examined |-> <<>>,
     result |-> Pending]

PureIdle ==
    /\ value = <<>>
    /\ result = Pending
    /\ calls = 0
    /\ walk = NoWalk

\* no action handler has run yet
RestartIdle ==
    /\ pc = "idle"
    /\ selected = None
    /\ launch_candidates = <<>>
    /\ next_candidate = 0
    /\ elapsed = 0
    /\ observed_running = None
    /\ chains = <<>>
    /\ signals = <<>>

\* AppModel::init: empty Steam cache, Ram descending, then one refresh
InitOn(tables) ==
    /\ PureIdle
    /\ RestartIdle
    /\ sort_state = [column |-> "Ram", direction |-> "Desc"]
    /\ selected_process = None
    /\ \E table \in tables, library \in SteamLibraries :
          \E refreshed \in {refresh_processes(table, library, <<>>, <<>>)} :
              /\ system = refreshed.system
              /\ desktop_apps_by_exec = refreshed.desktop_apps_by_exec
              /\ steam_apps_by_id = refreshed.steam_apps_by_id
              /\ steam_lookups = refreshed.steam_lookups
              /\ contributors = refreshed.contributors
              /\ process_entries \in
                    {sort_process_entries(order, sort_state) :
                        order \in Orderings(refreshed.entries)}

\* AppModel::init on a desktop session
Init == InitOn(ProcessTables)

\* Message::RefreshProcesses, with the process table found among tables
TickOn(tables) ==
    /\ \E table \in tables, library \in SteamLibraries :
          \E refreshed \in {refresh_processes(table, library, steam_apps_by_id,
                                              steam_lookups)} :
              /\ system' = refreshed.system
              /\ desktop_apps_by_exec' = refreshed.desktop_apps_by_exec
              /\ steam_apps_by_id' = refreshed.steam_apps_by_id
              /\ steam_lookups' = refreshed.steam_lookups
              /\ contributors' = refreshed.contributors
              /\ process_entries' \in
                    {sort_process_entries(order, sort_state) :
                        order \in Orderings(refreshed.entries)}
    /\ UNCHANGED <<sort_state, selected_process, pureVars, restartVars>>

\* Message::RefreshProcesses
Tick == TickOn(ProcessTables)

\* a mutant of toggle_sort: a newly chosen column keeps the direction in use
toggle_sort_keeping_direction(state, column) ==
    IF state.column = column
    THEN [state EXCEPT
             !.direction = IF state.direction = "Asc" THEN "Desc" ELSE "Asc"]
    ELSE [column |-> column, direction |-> state.direction]

\* the sort state toggle_sort(column) assigns
toggle_sort(state, column) ==
    IF state.column = column
    THEN [state EXCEPT
             !.direction = IF state.direction = "Asc" THEN "Desc" ELSE "Asc"]
    ELSE [column |-> column, direction |-> default_direction(column)]

\* Message::ToggleSort(column)
ToggleSort ==
    /\ \E column \in SortColumns :
          /\ sort_state' = toggle_sort(sort_state, column)
          /\ process_entries' = sort_process_entries(process_entries, sort_state')
    /\ UNCHANGED <<system, desktop_apps_by_exec, steam_apps_by_id, steam_lookups,
                   contributors, selected_process, pureVars, restartVars>>

Next == Tick \/ ToggleSort

Spec == Init /\ [][Next]_vars

\* C2: after every refresh, every aggregated entry has a CPU share within
\* [0, 100] and at least one thread, and no two entries have the same
\* application id.
C2_AggregationInvariant ==
    /\ \A i \in 1..Len(process_entries) :
          /\ process_entries[i].cpu_percent >= 0
          /\ process_entries[i].cpu_percent <= 100
          /\ process_entries[i].threads >= 1
    /\ \A i, j \in 1..Len(process_entries) :
          i # j => process_entries[i].app_id # process_entries[j].app_id

\* after an earlier tick that sighted a Steam game: the two firefox processes,
\* whose shares sum to more than 100, in one entry
C2_Witness ==
    /\ {20, 21} \subseteq DOMAIN system
    /\ steam_apps_by_id # <<>>
    /\ \E i \in 1..Len(process_entries) :
          /\ process_entries[i].app_id = <<"f", "i", "r", "e", "f", "o", "x">>
          /\ process_entries[i].cpu_percent = 100
          /\ process_entries[i].threads = 4

\* a and b do not differ on the sort column
TiedOn(a, b, column) ==
    CASE column = "Name" -> a.name = b.name
      [] column = "Cpu" -> a.cpu_percent = b.cpu_percent
      [] column = "Pid" -> a.pid = b.pid
      [] column = "Ram" -> a.rss_bytes = b.rss_bytes
      [] column = "Threads" -> a.threads = b.threads

\* a goes before b by RAM descending, then CPU descending, then pid ascending
TieBreakBefore(a, b) ==
    \/ a.rss_bytes > b.rss_bytes
    \/ /\ a.rss_bytes = b.rss_bytes
       /\ \/ a.cpu_percent > b.cpu_percent
          \/ a.cpu_percent = b.cpu_percent /\ a.pid < b.pid

\* C4: in the sorted entries, for every column and direction, entries tied on
\* the sort column stand in RAM-descending, CPU-descending, pid-ascending
\* order, and sorting the same entries from any other order gives the same
\* sequence.
C4_SortTieBreaks ==
    /\ \A i, j \in 1..Len(process_entries) :
          (i < j /\ TiedOn(process_entries[i], process_entries[j],
                           sort_state.column))
              => TieBreakBefore(process_entries[i], process_entries[j])
    /\ \A order \in Orderings(Range(process_entries)) :
          sort_process_entries(order, sort_state) = process_entries

\* firefox and the Steam game tie on CPU, RAM and threads; ascending by CPU
\* they stand in pid order
C4_Witness ==
    /\ sort_state = [column |-> "Cpu", direction |-> "Asc"]
    /\ Len(process_entries) = 2
    /\ process_entries[1].pid = 20
    /\ process_entries[2].pid = 32
    /\ process_entries[1].cpu_percent = process_entries[2].cpu_percent
    /\ process_entries[1].rss_bytes = process_entries[2].rss_bytes

\* C10: the Steam cache only grows: load_steam_app_meta ran exactly once for
\* every id sighted, what it returned then is what the cache holds, and no
\* step removes or changes an entry of the cache.
C10_SteamCacheOnlyGrows ==
    /\ [](/\ DOMAIN steam_lookups = DOMAIN steam_apps_by_id
          /\ \A id \in DOMAIN steam_apps_by_id :
                steam_lookups[id] = <<steam_apps_by_id[id]>>)
    /\ [][\A id \in DOMAIN steam_apps_by_id :
              /\ id \in DOMAIN steam_apps_by_id'
              /\ steam_apps_by_id'[id] = steam_apps_by_id[id]]_vars

\* both Steam games are listed; 730 keeps the fallback name of its first
\* lookup although 440 was looked up in a library that has the manifests
C10_Witness ==
    /\ DOMAIN steam_apps_by_id = SteamAppIds
    /\ steam_apps_by_id[<<"7", "3", "0">>].name = <<"S", "t", "e", "a", "m", " ", "A", "p", "p", " ", "7", "3", "0">>
    /\ steam_apps_by_id[<<"4", "4", "0">>].name = <<"T", "e", "a", "m", " ", "F", "o", "r", "t", "r", "e", "s", "s", " ", "2">>
    /\ \E i, j \in 1..Len(process_entries) :
          /\ process_entries[i].app_id = <<"s", "t", "e", "a", "m", "-", "a", "p", "p", "-", "7", "3", "0">>
          /\ process_entries[i].name = <<"S", "t", "e", "a", "m", " ", "A", "p", "p", " ", "7", "3", "0">>
          /\ process_entries[j].app_id = <<"s", "t", "e", "a", "m", "-", "a", "p", "p", "-", "4", "4", "0">>

\* the sum of f over the pids
RECURSIVE SumOver(_, _)
SumOver(pids, f) ==
    IF pids = {} THEN 0
    ELSE LET pid == CHOOSE p \in pids : TRUE
         IN  f[pid] + SumOver(pids \ {pid}, f)

\* CPU usage over the core count, held within [0, 100]
ShareOf(process) ==
    IF process.cpu_usage \div cpu_core_count > 100 THEN 100
    ELSE IF process.cpu_usage \div cpu_core_count < 0 THEN 0
    ELSE process.cpu_usage \div cpu_core_count

\* the task count, 1 when it is unknown
TasksOf(process) ==
    IF process.tasks = None THEN 1 ELSE process.tasks.value

\* an entry shows of its members the lowest pid, the largest resident size,
\* the summed task counts (at least 1) and the summed shares (at most 100)
SummarisesMembers(entry, members) ==
    /\ members # {}
    /\ members \subseteq DOMAIN system
    /\ entry.pid \in members
    /\ \A pid \in members : entry.pid <= pid
    /\ \E pid \in members : entry.rss_bytes = system[pid].memory
    /\ \A pid \in members : entry.rss_bytes >= system[pid].memory
    /\ \E total \in {SumOver(members, [pid \in members |-> TasksOf(system[pid])])} :
          entry.threads = IF total < 1 THEN 1 ELSE total
    /\ \E total \in {SumOver(members, [pid \in members |-> ShareOf(system[pid])])} :
          entry.cpu_percent = IF total > 100 THEN 100 ELSE total

\* C11: every aggregated entry shows the minimum pid of the processes folded
\* into it, the maximum single-process RSS among them, the sum of their task
\* counts (unknown counting as 1) floored at 1, and the sum of their CPU
\* usages over the core count, clamped per process and again in total to
\* [0, 100].
C11_AggregatedFields ==
    \A i \in 1..Len(process_entries) :
        /\ process_entries[i].app_id \in DOMAIN contributors
        /\ SummarisesMembers(process_entries[i],
                             contributors[process_entries[i].app_id])

\* the reaper (no CPU, no task listed) and the game it started are one entry:
\* pid 30, the game's 2000 of RSS, its 8 threads, its share clamped to 100
C11_Witness ==
    /\ DOMAIN system = {30, 31}
    /\ Len(process_entries) = 1
    /\ contributors[process_entries[1].app_id] = {30, 31}
    /\ process_entries[1].pid = 30
    /\ process_entries[1].rss_bytes = 2000
    /\ process_entries[1].threads = 8
    /\ process_entries[1].cpu_percent = 100

\* the positions of the candidate keys of pid that the registry binds
BoundKeyPositions(pid, desktop_apps) ==
    {i \in 1..Len(candidate_keys_by_pid[pid]) :
        candidate_keys_by_pid[pid][i] \in DOMAIN desktop_apps}

\* the identity of a process: the app id bound to its first bound key; with
\* no bound key, steam-app-<id> when Steam resolution finds an id
ExpectedIdentity(pid, processes, desktop_apps) ==
    IF BoundKeyPositions(pid, desktop_apps) # {}
    THEN Some(desktop_apps[candidate_keys_by_pid[pid][
                 CHOOSE i \in BoundKeyPositions(pid, desktop_apps) :
                     \A j \in BoundKeyPositions(pid, desktop_apps) : i <= j]].app_id)
    ELSE IF steam_app_id_for_process(processes[pid], processes) # None
    THEN Some(STEAM_APP_PREFIX
                 \o steam_app_id_for_process(processes[pid], processes).value)
    ELSE None

\* the processes of the table that Steam resolution is tried for and gives id
SteamResolved(id, processes, desktop_apps) ==
    {pid \in eligible_pids(processes) :
        /\ candidate_keys_by_pid[pid] # <<>>
        /\ BoundKeyPositions(pid, desktop_apps) = {}
        /\ steam_app_id_for_process(processes[pid], processes) = Some(id)}

\* every process folded into an entry has that entry's id as its identity,
\* and every eligible process with keys and an identity that is not excluded
\* is folded into the entry of that identity
ResolvedRegistryFirst ==
    /\ \A app_id \in DOMAIN contributors :
          \A pid \in contributors[app_id] :
              ExpectedIdentity(pid, system, desktop_apps_by_exec) = Some(app_id)
    /\ \A pid \in eligible_pids(system) :
          \/ candidate_keys_by_pid[pid] = <<>>
          \/ ExpectedIdentity(pid, system, desktop_apps_by_exec) = None
          \/ is_excluded_app_id(
                 ExpectedIdentity(pid, system, desktop_apps_by_exec).value)
          \/ /\ ExpectedIdentity(pid, system, desktop_apps_by_exec).value
                    \in DOMAIN contributors
             /\ pid \in contributors[
                    ExpectedIdentity(pid, system, desktop_apps_by_exec).value]
    /\ {process_entries[i].app_id : i \in 1..Len(process_entries)}
          = DOMAIN contributors

\* a Steam id enters the cache only through a process without a bound key
SteamOnlyAsFallback ==
    \A id \in DOMAIN steam_apps_by_id' \ DOMAIN steam_apps_by_id :
        SteamResolved(id, system', desktop_apps_by_exec') # {}

\* C12: identity resolution takes the Registry first and Steam as fallback:
\* the first candidate key, in derivation order, that the Registry binds
\* decides the identity; Steam resolution is tried only for a process none of
\* whose keys is bound; a process with neither is folded into no entry.
C12_RegistryFirst ==
    /\ \A id \in DOMAIN steam_apps_by_id :
          SteamResolved(id, system, desktop_apps_by_exec) # {}
    /\ []ResolvedRegistryFirst
    /\ [][SteamOnlyAsFallback]_vars

\* the firefox content process, whose keys are firefox and steam and whose
\* command line carries a Steam id, is firefox; the game is steam-app-440
C12_Witness ==
    /\ DOMAIN system = {21, 32}
    /\ candidate_keys_by_pid[21] = << <<"f", "i", "r", "e", "f", "o", "x">>, <<"s", "t", "e", "a", "m">> >>
    /\ steam_app_id_by_pid[21] = Some(<<"4", "4", "0">>)
    /\ DOMAIN contributors = { <<"f", "i", "r", "e", "f", "o", "x">>, <<"s", "t", "e", "a", "m", "-", "a", "p", "p", "-", "4", "4", "0">> }
    /\ contributors[<<"f", "i", "r", "e", "f", "o", "x">>] = {21}
    /\ contributors[<<"s", "t", "e", "a", "m", "-", "a", "p", "p", "-", "4", "4", "0">>] = {32}
    /\ DOMAIN steam_apps_by_id = { <<"4", "4", "0">> }

\* the user the monitor runs as
MonitorOwner == ProcessCatalogue[SELF_PID].user_id

BACKGROUND_WORDS == { <<"d", "a", "e", "m", "o", "n">>, <<"a", "p", "p", "l", "e", "t">>, <<"h", "e", "l", "p", "e", "r">>, <<"s", "e", "r", "v", "i", "c", "e">> }

\* the text holds one of the background words, in any case
NamesBackgroundComponent(text) ==
    \E word \in BACKGROUND_WORDS :
        \E i \in 0..(Len(text) - Len(word)) :
            to_lowercase(SubSeq(text, i + 1, i + Len(word))) = word

\* owned by the monitor's user, with an executable path, with a name that is
\* not a kernel thread's, and no background component by executable stem,
\* argv0 stem or name
Eligible(process) ==
    /\ process.user_id = MonitorOwner
    /\ process.exe # None
    /\ process.exe.value # <<>>
    /\ \E i \in 1..Len(process.name) : ~is_whitespace(process.name[i])
    /\ process.name[1] # "["
    /\ ~NamesBackgroundComponent(unwrap_or(exe_name(process), <<>>))
    /\ process.cmd # <<>>
          => ~NamesBackgroundComponent(file_stem_or_self(process.cmd[1]))
    /\ ~NamesBackgroundComponent(process.name)

\* C13: every process folded into an aggregated entry is eligible: owned by
\* the monitor's user, with a non-empty executable path and a non-empty name
\* not starting with [, and not a background component; also when the
\* monitor's own owner id cannot be determined.
C13_OnlyEligibleContribute ==
    \A app_id \in DOMAIN contributors :
        \A pid \in contributors[app_id] : Eligible(system[pid])

-----------------------------------------------------------------------------
(* SpecNormalize: normalize_exec_key applied to a string, then to its own *)
(* result                                                                  *)

\* the engine before construction: the pure-function specifications leave
\* it alone
EngineIdle ==
    /\ system = <<>>
    /\ desktop_apps_by_exec = <<>>
    /\ steam_apps_by_id = <<>>
    /\ process_entries = <<>>
    /\ sort_state = [column |-> "Ram", direction |-> "Desc"]
    /\ selected_process = None
    /\ steam_lookups = <<>>
    /\ contributors = <<>>

InitNormalize ==
    /\ EngineIdle
    /\ RestartIdle
    /\ value \in SeqsUpTo(KeyAlphabet, MaxKeyLen)
    /\ result = Pending
    /\ calls = 0
    /\ walk = NoWalk

Normalize ==
    /\ calls = 0
    /\ result' = normalize_exec_key(value)
    /\ calls' = 1
    /\ UNCHANGED <<value, walk, engineVars, restartVars>>

Renormalize ==
    /\ calls = 1
    /\ is_some(result)
    /\ value' = result.value
    /\ result' = normalize_exec_key(result.value)
    /\ calls' = 2
    /\ UNCHANGED <<walk, engineVars, restartVars>>

NextNormalize == Normalize \/ Renormalize

SpecNormalize == InitNormalize /\ [][NextNormalize]_vars

\* C3: normalize_exec_key is idempotent: when normalize_exec_key(s) = Some(k),
\* normalising k again gives Some(k).
C3_NormalizeIdempotent ==
    calls = 2 => result = Some(value)

-----------------------------------------------------------------------------
(* SpecSteamId: extract_steam_app_id applied to a process name or command *)
(* line                                                                    *)

InitSteamId ==
    /\ EngineIdle
    /\ RestartIdle
    /\ value \in SteamInputs
    /\ result = Pending
    /\ calls = 0
    /\ walk = NoWalk

ExtractSteamAppId ==
    /\ calls = 0
    /\ result' = extract_steam_app_id(value)
    /\ calls' = 1
    /\ UNCHANGED <<value, walk, engineVars, restartVars>>

NextSteamId == ExtractSteamAppId

SpecSteamId == InitSteamId /\ [][NextSteamId]_vars

\* where `marker` occurs in the lower-cased text (0-based offsets)
MarkerOffsets(lower, marker) ==
    {i \in 0..(Len(lower) - Len(marker)) :
        SubSeq(lower, i + 1, i + Len(marker)) = marker}

\* the digits that follow offset `pos` once the separators after it are
\* stepped over; empty when another character, or nothing, comes first
DigitRunAfter(v, pos) ==
    LET n == Len(v)
        first == CHOOSE j \in pos..n :
                    /\ \A k \in pos..(j - 1) : v[k + 1] \in ID_SEPARATORS
                    /\ j = n \/ v[j + 1] \notin ID_SEPARATORS
        last == CHOOSE e \in first..n :
                    /\ \A k \in first..(e - 1) : is_ascii_digit(v[k + 1])
                    /\ e = n \/ ~is_ascii_digit(v[e + 1])
    IN  SubSeq(v, first + 1, last)

\* the occurrences of the m-th marker that carry an id
IdOffsets(v, m) ==
    {i \in MarkerOffsets(to_lowercase(v), STEAM_MARKERS[m]) :
        DigitRunAfter(v, i + Len(STEAM_MARKERS[m])) \notin {<<>>, <<"0">>}}

ExpectedSteamAppId(v) ==
    LET useful == {m \in 1..Len(STEAM_MARKERS) : IdOffsets(v, m) # {}}
    IN  IF useful = {} THEN None
        ELSE LET m == CHOOSE x \in useful : \A y \in useful : x <= y
                 i == CHOOSE x \in IdOffsets(v, m) :
                        \A y \in IdOffsets(v, m) : x <= y
             IN  Some(DigitRunAfter(v, i + Len(STEAM_MARKERS[m])))

\* C5: extract_steam_app_id returns the maximal digit run that follows the
\* first marker occurrence carrying one (markers in the listed order, matched
\* case-insensitively, occurrences left to right, only separators skipped,
\* an occurrence followed by anything else or by the rejected literal 0
\* passed over); the three documented command lines give 1903340, 1903340, 730.
C5_SteamIdExtraction ==
    calls = 1 =>
        /\ result = ExpectedSteamAppId(value)
        /\ value = ReaperCmdline =>
              result = Some(<<"1", "9", "0", "3", "3", "4", "0">>)
        /\ value = GameOverlayCmdline =>
              result = Some(<<"1", "9", "0", "3", "3", "4", "0">>)
        /\ value = SteamAppToken => result = Some(<<"7", "3", "0">>)

\* a mixed-case marker whose first occurrence carries no id and whose second
\* occurrence, after a skipped separator, does
C5_Witness ==
    /\ calls = 1
    /\ value = <<"A", "p", "p", "I", "d", "=">>
                  \o <<"A", "p", "p", "I", "d", "=">> \o <<" ">> \o <<"7">>
    /\ result = Some(<<"7">>)

HasMarker(v) ==
    \E m \in 1..Len(STEAM_MARKERS) :
        MarkerOffsets(to_lowercase(v), STEAM_MARKERS[m]) # {}

\* some marker is followed by the value 0 and none by another digit run
OnlyZeroIds(v) ==
    /\ \E m \in 1..Len(STEAM_MARKERS) :
          \E i \in MarkerOffsets(to_lowercase(v), STEAM_MARKERS[m]) :
              DigitRunAfter(v, i + Len(STEAM_MARKERS[m])) = <<"0">>
    /\ \A m \in 1..Len(STEAM_MARKERS) : IdOffsets(v, m) = {}

\* C6: extract_steam_app_id never returns "" or "0"; a marker followed by the
\* value 0 (no other marker carrying an id), no marker at all, or only white
\* space give no id.
C6_SteamIdNeverZero ==
    calls = 1 =>
        /\ result # Some(<<>>)
        /\ result # Some(<<"0">>)
        /\ OnlyZeroIds(value) => result = None
        /\ ~HasMarker(value) => result = None
        /\ (\A i \in 1..Len(value) : is_whitespace(value[i])) => result = None

C6_Witness ==
    /\ calls = 1
    /\ value = <<"a", "p", "p", "i", "d", "=">> \o <<" ">> \o <<"0">>
    /\ result = None

-----------------------------------------------------------------------------
(* SpecWalk: steam_app_id_for_process, one round of its loop at a time, on *)
(* parent chains that end, lead out of the table, or run in a circle       *)

MaxChain == 16

\* the pids whose command line carries a Steam id
CHAIN_CARRIERS == {14, 16}

ChainProcess(pid, parent) ==
    ProcessSample(pid, parent, Some(1000), Some(<<"/", "g", "a", "m", "e", "s", "/", "r", "u", "n">>),
        IF pid \in CHAIN_CARRIERS
        THEN << <<"/", "g", "a", "m", "e", "s", "/", "r", "u", "n">>, <<"A", "p", "p", "I", "d", "=", "7">> \o (IF pid = 14 THEN <<"1", "4">> ELSE <<"1", "6">>) >>
        ELSE << <<"/", "g", "a", "m", "e", "s", "/", "r", "u", "n">> >>,
        <<"r", "u", "n">>, 0, 10, Some(1))

\* the processes first..top, each the child of the next; the parent of the
\* top one is tail
ChainTable(first, top, tail) ==
    [pid \in first..top |->
        ChainProcess(pid, IF pid < top THEN Some(pid + 1) ELSE tail)]

\* what extract_steam_app_id_from_process returns for each process of the
\* table; the function reads nothing but the process, so the walk looks its
\* results up here
ChainSteamIds(first, top) ==
    [pid \in first..top |->
        extract_steam_app_id_from_process(ChainProcess(pid, None))]

\* no parent, a parent that is not in the table, or a parent down the chain
\* (the top one itself included)
ChainTails(first, top) ==
    {None, Some(0)} \cup {Some(pid) : pid \in first..top}

\* a mutant of walk_step: the depth is not limited
walk_step_no_depth_limit(w) ==
    IF ~is_some(w.parent) THEN [w EXCEPT !.pc = "done", !.result = None]
    ELSE IF w.parent.value \in w.visited
         THEN [w EXCEPT !.pc = "done", !.result = None]
    ELSE IF w.parent.value \notin DOMAIN w.processes
         THEN [w EXCEPT !.pc = "done", !.result = None,
                        !.visited = @ \cup {w.parent.value}]
    ELSE IF is_some(w.steam_ids[w.parent.value])
         THEN [w EXCEPT !.pc = "done",
                        !.result = w.steam_ids[w.parent.value],
                        !.visited = @ \cup {w.parent.value},
                        !.examined = Append(@, w.parent.value)]
    ELSE [w EXCEPT !.parent = w.processes[w.parent.value].parent,
                   !.depth = @ + 1,
                   !.visited = @ \cup {w.parent.value},
                   !.examined = Append(@, w.parent.value)]

\* one round of the while loop of steam_app_id_for_process
walk_step(w) ==
    IF ~is_some(w.parent) THEN [w EXCEPT !.pc = "done", !.result = None]
    ELSE IF w.depth >= STEAM_PARENT_DEPTH \/ w.parent.value \in w.visited
         THEN [w EXCEPT !.pc = "done", !.result = None]
    ELSE IF w.parent.value \notin DOMAIN w.processes
         THEN [w EXCEPT !.pc = "done", !.result = None,
                        !.visited = @ \cup {w.parent.value}]
    ELSE IF is_some(w.steam_ids[w.parent.value])
         THEN [w EXCEPT !.pc = "done",
                        !.result = w.steam_ids[w.parent.value],
                        !.visited = @ \cup {w.parent.value},
                        !.examined = Append(@, w.parent.value)]
    ELSE [w EXCEPT !.parent = w.processes[w.parent.value].parent,
                   !.depth = @ + 1,
                   !.visited = @ \cup {w.parent.value},
                   !.examined = Append(@, w.parent.value)]

\* the call, on a process of a chain table
InitWalk ==
    /\ EngineIdle
    /\ RestartIdle
    /\ value = <<>>
    /\ result = Pending
    /\ calls = 0
    /\ \E first \in 1..MaxChain :
          \E top \in first..MaxChain :
              \E tail \in ChainTails(first, top) :
                  walk = [NoWalk EXCEPT
                             !.pc = "self",
                             !.processes = ChainTable(first, top, tail),
                             !.steam_ids = ChainSteamIds(first, top),
                             !.pid = first]

\* the process itself is looked at; without an id the walk up starts
WalkSelf ==
    /\ walk.pc = "self"
    /\ walk' =
          IF is_some(walk.steam_ids[walk.pid])
          THEN [walk EXCEPT
                   !.pc = "done",
                   !.result = walk.steam_ids[walk.pid]]
          ELSE [walk EXCEPT
                   !.pc = "loop",
                   !.parent = walk.processes[walk.pid].parent,
                   !.visited = {},
                   !.depth = 0]
    /\ UNCHANGED <<value, result, calls, engineVars, restartVars>>

WalkStep ==
    /\ walk.pc = "loop"
    /\ walk' = walk_step(walk)
    /\ UNCHANGED <<value, result, calls, engineVars, restartVars>>

NextWalk == WalkSelf \/ WalkStep

\* the function runs on until it returns
SpecWalk == InitWalk /\ [][NextWalk]_vars /\ WF_vars(NextWalk)

\* the parent, the parent's parent and so on, as far as the table has them,
\* at most n of them
RECURSIVE Ancestors(_, _, _)
Ancestors(processes, parent, n) ==
    IF n = 0 \/ parent = None THEN <<>>
    ELSE IF parent.value \notin DOMAIN processes THEN <<>>
    ELSE <<parent.value>>
             \o Ancestors(processes, processes[parent.value].parent, n - 1)

\* how many of the ancestors come before the first that repeats
FreshPrefix(path) ==
    CHOOSE n \in 0..Len(path) :
        /\ \A i, j \in 1..n : i # j => path[i] # path[j]
        /\ n < Len(path) => \E i \in 1..n : path[i] = path[n + 1]

\* the positions, among the first 12 ancestors before any repeats, that
\* carry a Steam id
CarryingAncestors(processes, pid) ==
    {k \in 1..FreshPrefix(Ancestors(processes, processes[pid].parent, 12)) :
        extract_steam_app_id_from_process(
            processes[Ancestors(processes, processes[pid].parent, 12)[k]])
          # None}

\* the id of the process itself, else of its nearest ancestor carrying one
NearestSteamAppId(processes, pid) ==
    IF extract_steam_app_id_from_process(processes[pid]) # None
    THEN extract_steam_app_id_from_process(processes[pid])
    ELSE IF CarryingAncestors(processes, pid) = {} THEN None
    ELSE extract_steam_app_id_from_process(
             processes[Ancestors(processes, processes[pid].parent, 12)[
                 CHOOSE k \in CarryingAncestors(processes, pid) :
                     \A l \in CarryingAncestors(processes, pid) : k <= l]])

\* at most 12 ancestors are examined, none twice, each the parent of the one
\* before; the result is the id of the process or of its nearest ancestor
\* within reach, and what the engine's resolution gives
WalkBounded ==
    /\ Len(walk.examined) <= 12
    /\ \A i, j \in 1..Len(walk.examined) :
          i # j => walk.examined[i] # walk.examined[j]
    /\ \A i \in 1..Len(walk.examined) :
          Some(walk.examined[i]) =
              walk.processes[IF i = 1 THEN walk.pid
                             ELSE walk.examined[i - 1]].parent
    /\ \A pid \in DOMAIN walk.processes :
          walk.steam_ids[pid]
              = extract_steam_app_id_from_process(walk.processes[pid])
    /\ walk.pc = "done" =>
          /\ walk.result = NearestSteamAppId(walk.processes, walk.pid)
          /\ walk.result = steam_app_id_for_process(walk.processes[walk.pid],
                                                    walk.processes)

\* C14: steam_app_id_for_process returns on every process table, parent
\* cycles and self-parents included; it looks at the process, then at no
\* more than 12 ancestors and at none twice, stops at the first that carries
\* an id, at a parent missing from the table or at the end of the chain, and
\* does not find an id carried beyond the 12th ancestor.
C14_ParentWalkTerminates ==
    /\ []WalkBounded
    /\ <>(walk.pc = "done")

\* from pid 1 the carrier 14 is the 13th ancestor: twelve are examined and
\* no id is found
C14_Witness ==
    /\ walk.pc = "done"
    /\ walk.pid = 1
    /\ DOMAIN walk.processes = 1..16
    /\ walk.examined = [i \in 1..12 |-> i + 1]
    /\ walk.result = None

-----------------------------------------------------------------------------
(* Launch candidates *)

\* str::replace(pattern, to)
RECURSIVE replace(_, _, _)
replace(s, p, to) ==
    IF Len(s) < Len(p) THEN s
    ELSE IF starts_with(s, p)
         THEN to \o replace(SubSeq(s, Len(p) + 1, Len(s)), p, to)
    ELSE <<Head(s)>> \o replace(Tail(s), p, to)

FIELD_CODES ==
    << <<"%", "f">>, <<"%", "F">>, <<"%", "u">>, <<"%", "U">>, <<"%", "d">>, <<"%", "D">>, <<"%", "n">>, <<"%", "N">>, <<"%", "k">>, <<"%", "v">>, <<"%", "m">>, <<"%", "i">>, <<"%", "c">> >>

\* for field_code in [..] { sanitized = sanitized.replace(field_code, "") }
RECURSIVE strip_field_codes(_, _)
strip_field_codes(exec, codes) ==
    IF codes = <<>> THEN exec
    ELSE strip_field_codes(replace(exec, Head(codes), <<>>), Tail(codes))

\* the command spawn_desktop_exec hands to sh -lc
sanitized_exec(exec) ==
    trim(replace(strip_field_codes(exec, FIELD_CODES), <<"%", "%">>, <<"%">>))

\* a LaunchCandidate: its variant, what it launches, and the arguments of a
\* Command
LaunchCandidate(kind, target, args) ==
    [kind |-> kind, target |-> target, args |-> args]

\* the SteamUri candidate, when the app id has the steam-app- prefix
steam_uri_candidates(app_id) ==
    IF is_some(strip_prefix(app_id, STEAM_APP_PREFIX))
    THEN <<LaunchCandidate("SteamUri",
               <<"s", "t", "e", "a", "m", ":", "/", "/", "r", "u", "n", "g", "a", "m", "e", "i", "d", "/">> \o strip_prefix(app_id, STEAM_APP_PREFIX).value,
               <<>>)>>
    ELSE <<>>

\* values().find(|meta| meta.app_id == app_id): the keys of one descriptor
\* are bound to the same meta
desktop_meta_for_app_id(desktop_apps, app_id) ==
    IF \E key \in DOMAIN desktop_apps : desktop_apps[key].app_id = app_id
    THEN Some(desktop_apps[CHOOSE key \in DOMAIN desktop_apps :
                               desktop_apps[key].app_id = app_id])
    ELSE None

\* the GtkLaunch, GioLaunch and DesktopExec candidates of a registry meta
desktop_candidates(meta) ==
    IF ~is_some(meta) THEN <<>>
    ELSE (IF /\ is_some(meta.value.desktop_entry_id)
             /\ trim(strip_suffix_or_self(meta.value.desktop_entry_id.value,
                                          <<".", "d", "e", "s", "k", "t", "o", "p">>)) # <<>>
          THEN <<LaunchCandidate("GtkLaunch",
                     strip_suffix_or_self(meta.value.desktop_entry_id.value,
                                          <<".", "d", "e", "s", "k", "t", "o", "p">>),
                     <<>>)>>
          ELSE <<>>)
         \o (IF is_some(meta.value.desktop_entry_path)
             THEN <<LaunchCandidate("GioLaunch",
                        meta.value.desktop_entry_path.value, <<>>)>>
             ELSE <<>>)
         \o (IF /\ is_some(meta.value.exec_command)
                /\ trim(meta.value.exec_command.value) # <<>>
             THEN <<LaunchCandidate("DesktopExec",
                        meta.value.exec_command.value, <<>>)>>
             ELSE <<>>)

\* the Command and Executable candidates of the selected pid, if the process
\* table still has it
process_candidates(pid, processes) ==
    IF pid \notin DOMAIN processes THEN <<>>
    ELSE (IF processes[pid].cmd # <<>> /\ trim(processes[pid].cmd[1]) # <<>>
          THEN <<LaunchCandidate("Command", trim(processes[pid].cmd[1]),
                                 Tail(processes[pid].cmd))>>
          ELSE <<>>)
         \o (IF is_some(processes[pid].exe) /\ processes[pid].exe.value # <<>>
             THEN <<LaunchCandidate("Executable", processes[pid].exe.value,
                                    <<>>)>>
             ELSE <<>>)

\* a mutant of launch_candidates_for_selected: the candidates of the live
\* process come first
launch_candidates_process_first(sel, desktop_apps, processes) ==
    process_candidates(sel.pid, processes)
        \o steam_uri_candidates(sel.app_id)
        \o desktop_candidates(desktop_meta_for_app_id(desktop_apps, sel.app_id))

launch_candidates_for_selected(sel, desktop_apps, processes) ==
    steam_uri_candidates(sel.app_id)
        \o desktop_candidates(desktop_meta_for_app_id(desktop_apps, sel.app_id))
        \o process_candidates(sel.pid, processes)

\* sanitized_exec, computed once per Exec line of the installed descriptors
sanitized_exec_by_line ==
    [line \in {InstalledApplications[i].exec.value :
                  i \in {j \in 1..Len(InstalledApplications) :
                            is_some(InstalledApplications[j].exec)}} |->
        sanitized_exec(line)]

\* sanitized_exec(exec), looked up for the Exec line of a descriptor
sanitized_exec_of(exec) ==
    IF exec \in DOMAIN sanitized_exec_by_line THEN sanitized_exec_by_line[exec]
    ELSE sanitized_exec(exec)

\* whether the spawn of a candidate may succeed: spawn_desktop_exec gives up
\* on an Exec line that is empty once sanitized, all else is up to the OS
spawn_outcomes(candidate) ==
    IF candidate.kind = "DesktopExec" /\ sanitized_exec_of(candidate.target) = <<>>
    THEN {FALSE}
    ELSE BOOLEAN

-----------------------------------------------------------------------------
(* SpecRestart: restart_selected_application, step by step; between the    *)
(* steps processes may exit                                                *)

TERM_WAIT_MS == 3000

KILL_WAIT_MS == 1000

POLL_INTERVAL_MS == 100

\* what a later look at the process table may find of the processes: some of
\* them have exited.  (A refresh that does not remove dead processes may
\* still list them; one that does, does not.)
Shrunk(processes) ==
    {[pid \in pids |-> processes[pid]] : pids \in SUBSET DOMAIN processes}

\* the processes of the monitor's user that resolve to app_id: the ones
\* signal_selected_application signals and is_app_id_running looks for
app_pids(app_id, processes, desktop_apps) ==
    {pid \in DOMAIN processes :
        /\ is_some(current_user_id(processes))
              => processes[pid].user_id = current_user_id(processes)
        /\ resolved_app_id_for_process(processes[pid], processes, desktop_apps)
              = Some(app_id)}

is_app_id_running(app_id, processes, desktop_apps) ==
    app_pids(app_id, processes, desktop_apps) # {}

\* the SelectedProcess of an entry
SelectedProcess(entry) ==
    [app_id |-> entry.app_id, pid |-> entry.pid,
     display_name |-> entry.display_name]

\* the action menu is opened on an entry
OpenMenu ==
    /\ pc = "idle"
    /\ selected_process = None
    /\ \E i \in 1..Len(process_entries) :
          selected_process' = Some(SelectedProcess(process_entries[i]))
    /\ UNCHANGED <<system, desktop_apps_by_exec, steam_apps_by_id,
                   process_entries, sort_state, steam_lookups, contributors,
                   pureVars, restartVars>>

\* restart_selected_application up to the TERM signal: the selection is
\* cloned and the launch candidates are built, the selected pid refreshed
\* first.  Without a selection the handler returns at once.
RestartBegin ==
    /\ pc = "idle"
    /\ is_some(selected_process)
    /\ selected' = selected_process
    /\ \E pids \in {DOMAIN system, DOMAIN system \ {selected_process.value.pid}} :
          system' = [pid \in pids |-> system[pid]]
    /\ launch_candidates' =
          launch_candidates_for_selected(selected_process.value,
                                         desktop_apps_by_exec, system')
    /\ pc' = "signal_term"
    /\ UNCHANGED <<desktop_apps_by_exec, steam_apps_by_id, process_entries,
                   sort_state, selected_process, steam_lookups, contributors,
                   pureVars, next_candidate, elapsed, observed_running, chains,
                   signals>>

\* signal_selected_application(Term | Kill), its closing refresh_processes
\* included, and the start of the wait that follows it
SignalSelected ==
    /\ pc \in {"signal_term", "signal_kill"}
    /\ \E snapshot \in Shrunk(system), library \in SteamLibraries :
          /\ signals' = Append(signals,
                [signal |-> IF pc = "signal_term" THEN "Term" ELSE "Kill",
                 pids |-> app_pids(selected.value.app_id, snapshot,
                                   desktop_apps_by_exec),
                 observed |-> DOMAIN snapshot,
                 chains_started |-> Len(chains)])
          /\ \E table \in Shrunk(snapshot) :
                \E refreshed \in {refresh_processes(table, library,
                                      steam_apps_by_id, steam_lookups)} :
                    /\ system' = refreshed.system
                    /\ desktop_apps_by_exec' = refreshed.desktop_apps_by_exec
                    /\ steam_apps_by_id' = refreshed.steam_apps_by_id
                    /\ steam_lookups' = refreshed.steam_lookups
                    /\ contributors' = refreshed.contributors
                    /\ process_entries' \in
                          {sort_process_entries(order, sort_state) :
                              order \in Orderings(refreshed.entries)}
    /\ pc' = IF pc = "signal_term" THEN "wait_term" ELSE "wait_kill"
    /\ elapsed' = 0
    /\ observed_running' = None
    /\ UNCHANGED <<sort_state, selected_process, pureVars, selected,
                   launch_candidates, next_candidate, chains>>

wait_timeout(at) == IF at = "wait_term" THEN TERM_WAIT_MS ELSE KILL_WAIT_MS

\* a mutant of sleep: the time waited does not move on
sleep_not_counted(waited) == waited

\* std::thread::sleep(Duration::from_millis(100)): the time waited so far
sleep(waited) == waited + POLL_INTERVAL_MS

\* one round of the loop of wait_for_app_exit: past the deadline the wait
\* ends; else the table is looked at, and the wait ends if the application
\* is gone and sleeps if it is not
WaitForAppExit ==
    /\ pc \in {"wait_term", "wait_kill"}
    /\ IF elapsed >= wait_timeout(pc)
       THEN /\ pc' = "launch"
            /\ UNCHANGED <<system, elapsed, observed_running>>
       ELSE \E snapshot \in Shrunk(system) :
               \E running \in {is_app_id_running(selected.value.app_id, snapshot,
                                                 desktop_apps_by_exec)} :
                   /\ system' = snapshot
                   /\ observed_running' = Some(running)
                   /\ pc' = IF running THEN pc ELSE "launch"
                   /\ elapsed' = IF running THEN sleep(elapsed) ELSE elapsed
    /\ UNCHANGED <<desktop_apps_by_exec, steam_apps_by_id, process_entries,
                   sort_state, selected_process, steam_lookups, contributors,
                   pureVars, selected, launch_candidates, next_candidate, chains,
                   signals>>

\* a mutant of chain_candidates: the list is built again for each chain
chain_candidates_rebuilt(built, rebuilt) == rebuilt

\* launch_from_candidates(&launch_candidates): a chain runs the list that was
\* built when the restart began, not one built from the table as it is now
chain_candidates(built, rebuilt) == built

\* the call of launch_from_candidates
LaunchFromCandidates ==
    /\ pc = "launch"
    /\ chains' = Append(chains,
          [observed_running |-> observed_running, waited |-> elapsed,
           attempts |-> <<>>, result |-> None])
    /\ launch_candidates' =
          chain_candidates(launch_candidates,
              launch_candidates_for_selected(selected.value,
                  desktop_apps_by_exec, system))
    /\ next_candidate' = 1
    /\ pc' = "spawn"
    /\ UNCHANGED <<engineVars, pureVars, selected, elapsed, observed_running,
                   signals>>

\* a mutant of after_spawn: a launched candidate does not end the chain
after_spawn_trying_on(chain, candidate, launched) ==
    [chain EXCEPT
        !.attempts = Append(@, [candidate |-> candidate, launched |-> launched])]

\* the chain after the spawn of a candidate: if launched { return true }
after_spawn(chain, candidate, launched) ==
    [chain EXCEPT
        !.attempts = Append(@, [candidate |-> candidate, launched |-> launched]),
        !.result = IF launched THEN Some(TRUE) ELSE None]

\* a mutant of after_chain: the first chain is always followed by the KILL
after_chain_always_escalating(number, launched) ==
    IF number = 1 THEN "signal_kill" ELSE "done"

\* where restart_selected_application goes on when a chain returns: a failed
\* first chain is followed by the KILL, the result of the second is ignored
after_chain(number, launched) ==
    IF number = 1 /\ ~launched THEN "signal_kill" ELSE "done"

\* one round of the for loop of launch_from_candidates: the next candidate
\* is spawned, or the list is used up and the chain returns false
SpawnCandidate ==
    /\ pc = "spawn"
    /\ IF next_candidate > Len(launch_candidates)
       THEN /\ chains' = [chains EXCEPT ![Len(chains)].result = Some(FALSE)]
            /\ pc' = after_chain(Len(chains), FALSE)
            /\ UNCHANGED next_candidate
       ELSE \E launched \in spawn_outcomes(launch_candidates[next_candidate]) :
               \E chain \in {after_spawn(chains[Len(chains)],
                                 launch_candidates[next_candidate], launched)} :
                   /\ chains' = [chains EXCEPT ![Len(chains)] = chain]
                   /\ pc' = IF is_some(chain.result)
                            THEN after_chain(Len(chains), TRUE) ELSE "spawn"
                   /\ next_candidate' = IF is_some(chain.result)
                                        THEN next_candidate
                                        ELSE next_candidate + 1
    /\ UNCHANGED <<engineVars, pureVars, selected, launch_candidates, elapsed,
                   observed_running, signals>>

NextRestart ==
    \/ OpenMenu
    \/ RestartBegin
    \/ SignalSelected
    \/ WaitForAppExit
    \/ LaunchFromCandidates
    \/ SpawnCandidate

SpecRestart == Init /\ [][NextRestart]_vars

\* a round of the wait in which no process has exited
WaitWhileRunning == WaitForAppExit /\ system' = system

\* restart_selected_application is one synchronous call: once it has begun
\* the thread goes from each of its steps to the next, and the wait loop
\* goes round also when nothing changes in the process table.  When the
\* handler is begun and whether processes exit is left open.
SpecRestartFair ==
    /\ Init
    /\ [][NextRestart]_vars
    /\ WF_vars(SignalSelected)
    /\ WF_vars(WaitWhileRunning)
    /\ WF_vars(LaunchFromCandidates)
    /\ WF_vars(SpawnCandidate)

\* C1: in a restart TERM is signalled before launch_from_candidates is first
\* called, and launch_from_candidates is not called while the application was
\* last observed running, unless the KILL was signalled before the call.
C1_RestartSequencing ==
    \A c \in 1..Len(chains) :
        /\ \E s \in 1..Len(signals) :
              signals[s].signal = "Term" /\ signals[s].chains_started = 0
        /\ chains[c].observed_running = Some(TRUE)
              => \E s \in 1..Len(signals) :
                    signals[s].signal = "Kill" /\ signals[s].chains_started < c

\* C8: KILL is signalled only after the first chain has failed, to the
\* processes that then resolve to the selected id; a first chain that
\* succeeds ends the restart; a first chain that fails is followed by the
\* KILL, a wait of at most one second and exactly one more chain, whose
\* result ends the restart either way.
C8_EscalationOnlyOnFailure ==
    /\ Len(chains) <= 2
    /\ \A s \in 1..Len(signals) :
          signals[s].signal = "Kill" =>
              /\ s = 2
              /\ signals[s].chains_started = 1
              /\ chains[1].result = Some(FALSE)
              /\ signals[s].pids =
                    app_pids(selected.value.app_id,
                             [pid \in signals[s].observed |-> ProcessCatalogue[pid]],
                             desktop_apps_by_exec)
    /\ (Len(chains) >= 1 /\ chains[1].result = Some(TRUE)) =>
          /\ pc = "done"
          /\ Len(chains) = 1
          /\ Len(signals) = 1
    /\ Len(chains) = 2 =>
          /\ Len(signals) = 2
          /\ signals[2].signal = "Kill"
          /\ is_some(chains[2].observed_running)
          /\ chains[2].waited <= KILL_WAIT_MS
          /\ is_some(chains[2].result) => pc = "done"
    /\ pc = "done" =>
          \/ Len(chains) = 1 /\ chains[1].result = Some(TRUE)
          \/ Len(chains) = 2 /\ chains[1].result = Some(FALSE)
    /\ pc = "wait_kill" => elapsed <= KILL_WAIT_MS

\* the first chain failed, the KILL went to a process that was still there,
\* and the second chain failed as well
C8_Witness ==
    /\ pc = "done"
    /\ Len(chains) = 2
    /\ chains[1].result = Some(FALSE)
    /\ chains[2].result = Some(FALSE)
    /\ Len(signals) = 2
    /\ signals[2].signal = "Kill"
    /\ signals[2].pids # {}

CANDIDATE_ORDER ==
    <<"SteamUri", "GtkLaunch", "GioLaunch", "DesktopExec", "Command",
      "Executable">>

KindRank(kind) ==
    CHOOSE r \in 1..Len(CANDIDATE_ORDER) : CANDIDATE_ORDER[r] = kind

\* C9: the launch candidates stand in the order Steam URI, gtk-launch, gio
\* launch, Exec string, command, executable, each kind at most once; the Steam
\* URI steam://rungameid/<id> is there exactly when the selected app id is
\* steam-app-<id>; the desktop-entry candidates are there only when the
\* registry has a meta with the selected app id.
C9_LaunchCandidateOrder ==
    is_some(selected) =>
        /\ \A i, j \in 1..Len(launch_candidates) :
              i < j => KindRank(launch_candidates[i].kind)
                          < KindRank(launch_candidates[j].kind)
        /\ (\E i \in 1..Len(launch_candidates) :
                launch_candidates[i].kind = "SteamUri")
              <=> /\ Len(selected.value.app_id) >= Len(STEAM_APP_PREFIX)
                  /\ SubSeq(selected.value.app_id, 1, Len(STEAM_APP_PREFIX))
                        = STEAM_APP_PREFIX
        /\ \A i \in 1..Len(launch_candidates) :
              launch_candidates[i].kind = "SteamUri" =>
                  launch_candidates[i].target =
                      <<"s", "t", "e", "a", "m", ":", "/", "/", "r", "u", "n", "g", "a", "m", "e", "i", "d", "/">>
                          \o SubSeq(selected.value.app_id,
                                    Len(STEAM_APP_PREFIX) + 1,
                                    Len(selected.value.app_id))
        /\ (\E i \in 1..Len(launch_candidates) :
                launch_candidates[i].kind
                    \in {"GtkLaunch", "GioLaunch", "DesktopExec"})
              => \E key \in DOMAIN desktop_apps_by_exec :
                    desktop_apps_by_exec[key].app_id = selected.value.app_id

\* firefox is selected: its descriptor and its live process give five
\* candidates
C9_Witness ==
    /\ is_some(selected)
    /\ selected.value.app_id = <<"f", "i", "r", "e", "f", "o", "x">>
    /\ [i \in 1..Len(launch_candidates) |-> launch_candidates[i].kind]
          = <<"GtkLaunch", "GioLaunch", "DesktopExec", "Command", "Executable">>

-----------------------------------------------------------------------------
(* SpecLaunch: launch_from_candidates on any list of candidates, as the   *)
(* first chain of a restart                                                *)

MaxCandidates == 3

\* candidates of several kinds; the Exec line %u is empty once sanitized
CandidateCatalogue ==
    { LaunchCandidate("SteamUri", <<"s", "t", "e", "a", "m", ":", "/", "/", "r", "u", "n", "g", "a", "m", "e", "i", "d", "/", "7", "3", "0">>, <<>>),
      LaunchCandidate("GtkLaunch", <<"f", "i", "r", "e", "f", "o", "x">>, <<>>),
      LaunchCandidate("DesktopExec", <<"%", "u">>, <<>>),
      LaunchCandidate("Executable", FirefoxExe, <<>>) }

InitLaunch ==
    /\ PureIdle
    /\ EngineIdle
    /\ pc = "launch"
    /\ selected = None
    /\ launch_candidates \in SeqsUpTo(CandidateCatalogue, MaxCandidates)
    /\ next_candidate = 0
    /\ elapsed = 0
    /\ observed_running = None
    /\ chains = <<>>
    /\ signals = <<>>

NextLaunch == LaunchFromCandidates \/ SpawnCandidate

SpecLaunch == InitLaunch /\ [][NextLaunch]_vars

\* the attempts of a chain follow the list, only the last can have launched,
\* and the chain returns true exactly when it has, and false only when the
\* list is used up
ChainInOrder(chain) ==
    /\ Len(chain.attempts) <= Len(launch_candidates)
    /\ \A k \in 1..Len(chain.attempts) :
          /\ chain.attempts[k].candidate = launch_candidates[k]
          /\ k < Len(chain.attempts) => ~chain.attempts[k].launched
    /\ chain.result = Some(TRUE)
          <=> /\ chain.attempts # <<>>
              /\ chain.attempts[Len(chain.attempts)].launched
    /\ chain.result = Some(FALSE)
          => Len(chain.attempts) = Len(launch_candidates)

\* a step of launch_from_candidates leaves the engine, the selection, the
\* candidates and the signals alone
ChainChangesNothingElse ==
    pc \in {"launch", "spawn"} =>
        UNCHANGED <<engineVars, selected, launch_candidates, signals>>

\* C7: launch_from_candidates tries the candidates in list order, stops at the
\* first that launches, returns true exactly when one launched and false when
\* all failed or there was none, and changes nothing but what it attempted.
C7_LaunchChainOrder ==
    /\ [](\A c \in 1..Len(chains) : ChainInOrder(chains[c]))
    /\ [][ChainChangesNothingElse]_vars

\* of three candidates the first failed and the second launched: the chain
\* returned true and the third was not tried
C7_Witness ==
    /\ Len(launch_candidates) = 3
    /\ Len(chains) = 1
    /\ chains[1].result = Some(TRUE)
    /\ Len(chains[1].attempts) = 2
    /\ ~chains[1].attempts[1].launched
    /\ pc = "done"

-----------------------------------------------------------------------------
(* Steam data files: libraryfolders.vdf and appmanifest_<id>.acf *)

\* a final empty piece after the last "\n" is not a line
drop_final_empty(pieces) ==
    IF pieces[Len(pieces)] = <<>> THEN SubSeq(pieces, 1, Len(pieces) - 1)
    ELSE pieces

\* str::lines: the text between line feeds, each without a final "\r"
lines(s) ==
    [i \in 1..Len(drop_final_empty(split_char(s, "\n"))) |->
        strip_suffix_or_self(drop_final_empty(split_char(s, "\n"))[i], <<"\r">>)]

\* the key and the value once the line is split at its double quotes
quoted_kv_of(parts) ==
    IF Len(parts) < 4 THEN None
    ELSE IF trim(parts[2]) = <<>> THEN None
    ELSE Some(<<trim(parts[2]), trim(parts[4])>>)

quoted_kv(line) == quoted_kv_of(split_char(line, "\""))

\* one round of the loop of steam_library_roots_from_vdf: what it pushes
vdf_root_of(kv) ==
    IF ~is_some(kv) THEN <<>>
    ELSE IF kv.value[1] # <<"p", "a", "t", "h">> THEN <<>>
    ELSE << replace(kv.value[2], <<"\\", "\\">>, <<"\\">>) >>

RECURSIVE vdf_roots_of_lines(_)
vdf_roots_of_lines(ls) ==
    IF ls = <<>> THEN <<>>
    ELSE vdf_root_of(quoted_kv(Head(ls))) \o vdf_roots_of_lines(Tail(ls))

steam_library_roots_from_vdf(vdf) == vdf_roots_of_lines(lines(vdf))

MaxLines == 3

\* each line followed by a line feed
RECURSIVE FileOf(_)
FileOf(ls) ==
    IF ls = <<>> THEN <<>> ELSE Head(ls) \o <<"\n">> \o FileOf(Tail(ls))

VdfLines ==
    { <<"\t", "\"", "p", "a", "t", "h", "\"", "\t", "\t", "\"", "/", "a", "\"">>, <<"\t", "\"", "p", "a", "t", "h", "\"", "\t", "\t", "\"", "/", "b", "\"", "\r">>, <<"\"", "p", "a", "t", "h", "\"", " ", "\"", "C", ":", "\\", "\\", "g", "\"">>,
      <<"{">>, <<"\"", "0", "\"">>, <<"\"", "P", "a", "t", "h", "\"", " ", "\"", "/", "c", "\"">>, <<"\"", " ", "p", "a", "t", "h", " ", "\"", " ", "\"", " ", "/", "a", " ", "\"">>, <<>>, <<"\"", "l", "a", "b", "e", "l", "\"", " ", "\"", "/", "d", "\"">> }

VdfContents == {FileOf(ls) : ls \in SeqsUpTo(VdfLines, MaxLines)}

InitVdf ==
    /\ EngineIdle
    /\ RestartIdle
    /\ value \in VdfContents
    /\ result = Pending
    /\ calls = 0
    /\ walk = NoWalk

LibraryRootsFromVdf ==
    /\ calls = 0
    /\ result' = steam_library_roots_from_vdf(value)
    /\ calls' = 1
    /\ UNCHANGED <<value, walk, engineVars, restartVars>>

NextVdf == LibraryRootsFromVdf

SpecVdf == InitVdf /\ [][NextVdf]_vars

\* where the double quotes of the line are
QuotePositions(line) == {i \in 1..Len(line) : line[i] = "\""}

\* the position of the n-th double quote; past the end when there is none
NthQuote(line, n) ==
    IF Cardinality(QuotePositions(line)) < n THEN Len(line) + 1
    ELSE CHOOSE i \in QuotePositions(line) :
             Cardinality({j \in QuotePositions(line) : j <= i}) = n

\* the line holds a quoted key that is not blank and the opening quote of a
\* value
IsQuotedPair(line) ==
    /\ Cardinality(QuotePositions(line)) >= 3
    /\ trim(SubSeq(line, NthQuote(line, 1) + 1, NthQuote(line, 2) - 1)) # <<>>

QuotedKey(line) ==
    trim(SubSeq(line, NthQuote(line, 1) + 1, NthQuote(line, 2) - 1))

QuotedValue(line) ==
    trim(SubSeq(line, NthQuote(line, 3) + 1, NthQuote(line, 4) - 1))

IsPathLine(line) == IsQuotedPair(line) /\ QuotedKey(line) = <<"p", "a", "t", "h">>

\* the values of the path lines, backslashes unescaped, one per line and in
\* the order of the lines
PathValues(ls) ==
    [k \in 1..Len(SelectSeq(ls, IsPathLine)) |->
        replace(QuotedValue(SelectSeq(ls, IsPathLine)[k]), <<"\\", "\\">>, <<"\\">>)]

\* what steam_library_roots_from_vdf returns: a path for each path line
VdfRootsPerLine == calls = 1 => result = PathValues(lines(value))

\* C15: steam_library_roots_from_vdf returns the values of the "path" lines,
\* backslashes unescaped, in the order of the lines, nothing for the other
\* lines, and each path once however often its line occurs.
C15_VdfRootsOnce ==
    calls = 1 => result = push_unseen(<<>>, PathValues(lines(value)))

\* str::eq_ignore_ascii_case
eq_ignore_ascii_case(a, b) == to_lowercase(a) = to_lowercase(b)

\* a mutant of acf_line_matches: the key is compared as written
acf_line_matches_case(kv, key) == is_some(kv) /\ kv.value[1] = key

\* the line is a pair and its key is the one asked for
acf_line_matches(kv, key) ==
    is_some(kv) /\ eq_ignore_ascii_case(kv.value[1], key)

RECURSIVE acf_value_of_lines(_, _)
acf_value_of_lines(ls, key) ==
    IF ls = <<>> THEN None
    ELSE IF acf_line_matches(quoted_kv(Head(ls)), key)
         THEN Some(quoted_kv(Head(ls)).value[2])
    ELSE acf_value_of_lines(Tail(ls), key)

acf_value(content, key) == acf_value_of_lines(lines(content), key)

AcfLines ==
    { <<"\t", "\"", "n", "a", "m", "e", "\"", "\t", "\t", "\"", "C", "l", "a", "i", "r", " ", "3", "3", "\"">>, <<"\"", "N", "a", "m", "e", "\"", " ", "\"", "O", "t", "h", "e", "r", "\"">>, <<"\"", "a", "p", "p", "i", "d", "\"", " ", "\"", "1", "9", "0", "\"">>,
      <<"\"", "A", "p", "p", "S", "t", "a", "t", "e", "\"">>, <<"{">>, <<"}">>, <<>>, <<"\"", "i", "n", "s", "t", "a", "l", "l", "d", "i", "r", "\"", " ", "\"", " ", "E", "x", "p", " ", "3", "3", " ", "\"", "\r">>,
      <<"\"", "n", "a", "m", "e", "\"", " ", "\"", "O", "p", "e", "n">> }

AcfContents == {FileOf(ls) : ls \in SeqsUpTo(AcfLines, MaxLines)}

AcfKeys == { <<"n", "a", "m", "e">>, <<"I", "n", "s", "t", "a", "l", "l", "D", "i", "r">>, <<"b", "u", "i", "l", "d", "i", "d">> }

InitAcf ==
    /\ EngineIdle
    /\ RestartIdle
    /\ value \in [content : AcfContents, key : AcfKeys]
    /\ result = Pending
    /\ calls = 0
    /\ walk = NoWalk

AcfValue ==
    /\ calls = 0
    /\ result' = acf_value(value.content, value.key)
    /\ calls' = 1
    /\ UNCHANGED <<value, walk, engineVars, restartVars>>

NextAcf == AcfValue

SpecAcf == InitAcf /\ [][NextAcf]_vars

\* the same text but for the case of its letters
SameButForCase(a, b) ==
    /\ Len(a) = Len(b)
    /\ \A i \in 1..Len(a) :
          \/ a[i] = b[i]
          \/ \E k \in 1..26 : {a[i], b[i]} = {UpperChars[k], LowerChars[k]}

\* the lines that are a quoted pair with the key asked for
MatchingLines(ls, key) ==
    {i \in 1..Len(ls) :
        IsQuotedPair(ls[i]) /\ SameButForCase(QuotedKey(ls[i]), key)}

NaturalDirection(column) ==
    CASE column = "Name" -> "Asc"
      [] column \in {"Cpu", "Pid", "Ram", "Threads"} -> "Desc"

Flipped(direction) == CHOOSE d \in {"Asc", "Desc"} : d # direction

\* what toggling `column` makes of the sort state `state`
ToggledAsStated(state, column) ==
    /\ state.column = column =>
          /\ toggle_sort(state, column)
                = [column |-> column, direction |-> Flipped(state.direction)]
          /\ toggle_sort(toggle_sort(state, column), column) = state
    /\ state.column # column =>
          toggle_sort(state, column)
              = [column |-> column, direction |-> NaturalDirection(column)]

\* the sort state changes by a toggle only: the direction of the active
\* column flips, or another column becomes active in its natural direction
SortStateStep ==
    \/ sort_state' = sort_state
    \/ /\ sort_state'.column = sort_state.column
       /\ sort_state'.direction = Flipped(sort_state.direction)
    \/ /\ sort_state'.column # sort_state.column
       /\ sort_state'.direction = NaturalDirection(sort_state'.column)

\* C17: the sort state starts as Ram descending; toggling the active column
\* flips the direction and keeps the column, so that toggling it twice gives
\* the sort state back; toggling another column makes it active in its
\* default direction, ascending for Name and descending for Cpu, Pid, Ram and
\* Threads, whatever the direction was.
C17_ToggleSort ==
    /\ sort_state = [column |-> "Ram", direction |-> "Desc"]
    /\ [](\A column \in SortColumns : ToggledAsStated(sort_state, column))
    /\ [][SortStateStep]_vars

\* Name was chosen and toggled again: it is active and descending, and the
\* list is in that order
C17_Witness ==
    /\ sort_state = [column |-> "Name", direction |-> "Desc"]
    /\ Len(process_entries) >= 2
    /\ process_entries = sort_process_entries(process_entries, sort_state)

-----------------------------------------------------------------------------
(* SpecRegistry: load_desktop_app_map over the descriptors in the order    *)
(* desktop::load_applications hands them out                               *)

MaxDescriptors == 3

Descriptor(id, name, exec) ==
    [id |-> id, name |-> name, icon |-> "icon", exec |-> exec,
     wm_class |-> None, mime_types |-> <<>>, path |-> None]

\* fox and Fox have the same key; fox-dev has fox as alias; the exec of Fox
\* gives the key run; the id "-" has no key; viewer has an Exec line, a
\* window class and a MIME type, png-tools MIME types only
DescriptorCatalogue ==
    { Descriptor(<<"f", "o", "x">>, <<"F", "o", "x">>, Some(<<"/", "u", "s", "r", "/", "b", "i", "n", "/", "f", "o", "x", " ", "%", "u">>)),
      Descriptor(<<"F", "o", "x">>, <<"F", "o", "x", " ", "N", "i", "g", "h", "t", "l", "y">>, Some(<<"/", "o", "p", "t", "/", "f", "o", "x", "/", "r", "u", "n">>)),
      Descriptor(<<"f", "o", "x", "-", "d", "e", "v">>, <<"F", "o", "x", " ", "D", "e", "v">>, Some(<<"f", "o", "x", "-", "d", "e", "v">>)),
      Descriptor(<<"r", "u", "n">>, <<"R", "u", "n">>, None),
      Descriptor(<<"-">>, <<"D", "a", "s", "h">>, None),
      [Descriptor(<<"v", "i", "e", "w", "e", "r">>, <<"V", "i", "e", "w", "e", "r">>, Some(<<"/", "u", "s", "r", "/", "b", "i", "n", "/", "v", "i", "e", "w", " ", "%", "f">>))
          EXCEPT !.wm_class = Some(<<"E", "o", "g">>), !.mime_types = << <<"i", "m", "a", "g", "e", "/", "p", "n", "g">> >>],
      [Descriptor(<<"p", "n", "g", "-", "t", "o", "o", "l", "s">>, <<"T", "o", "o", "l", "s">>, None)
          EXCEPT !.mime_types = << <<"i", "m", "a", "g", "e", "/", "p", "n", "g">>, <<"t", "e", "x", "t", "/", "x", "-", "d", "e", "v">> >>] }

\* the orders in which up to MaxDescriptors installed descriptors may come
DescriptorLists ==
    UNION {Orderings(S) : S \in {T \in SUBSET DescriptorCatalogue :
                                     Cardinality(T) <= MaxDescriptors}}

InitRegistry ==
    /\ EngineIdle
    /\ RestartIdle
    /\ value \in DescriptorLists
    /\ result = Pending
    /\ calls = 0
    /\ walk = NoWalk

LoadDesktopAppMap ==
    /\ calls = 0
    /\ result' = load_desktop_app_map(value)
    /\ calls' = 1
    /\ UNCHANGED <<value, walk, engineVars, restartVars>>

NextRegistry == LoadDesktopAppMap

SpecRegistry == InitRegistry /\ [][NextRegistry]_vars

\* the descriptors of the list that have key among their candidates
DescriptorsWithKey(apps, key) ==
    {app \in Range(apps) :
        is_some(normalize_exec_key(app.id)) /\ key \in app_candidate_keys(app)}

\* rank 0 to 3 of a descriptor for a key
StatedRank(app, key) ==
    CASE normalize_exec_key(app.id).value = key -> 0
      [] normalize_exec_key(app.id).value # key
           /\ key \in app_primary_exec_keys(app) -> 1
      [] normalize_exec_key(app.id).value # key
           /\ key \notin app_primary_exec_keys(app)
           /\ \/ starts_with(normalize_exec_key(app.id).value, key)
              \/ starts_with(key, normalize_exec_key(app.id).value) -> 2
      [] OTHER -> 3

LengthDistance(app, key) ==
    abs_diff(Len(normalize_exec_key(app.id).value), Len(key))

\* a is not behind b for the key: by rank, then by the distance of the
\* lengths, then by the id
NotBehind(a, b, key) ==
    \/ StatedRank(a, key) < StatedRank(b, key)
    \/ /\ StatedRank(a, key) = StatedRank(b, key)
       /\ \/ LengthDistance(a, key) < LengthDistance(b, key)
          \/ /\ LengthDistance(a, key) = LengthDistance(b, key)
             /\ cmp_str(normalize_exec_key(a.id).value,
                        normalize_exec_key(b.id).value) <= 0

\* every candidate key is bound, and to a best descriptor among those that
\* have it
BoundToBest ==
    calls = 1 =>
        /\ DOMAIN result = {key \in UNION {app_candidate_keys(app) :
                                               app \in Range(value)} :
                               DescriptorsWithKey(value, key) # {}}
        /\ \A key \in DOMAIN result :
              \E a \in DescriptorsWithKey(value, key) :
                  /\ result[key] = desktop_app_meta(a)
                  /\ \A b \in DescriptorsWithKey(value, key) :
                        NotBehind(a, b, key)

\* no two descriptors of the list have the same normalized id
DistinctAppIds(apps) ==
    \A a, b \in Range(apps) :
        normalize_exec_key(a.id) = normalize_exec_key(b.id)
            /\ is_some(normalize_exec_key(a.id)) => a = b

\* the same descriptors in any other order give the same map
OrderIndependent ==
    calls = 1 =>
        \A order \in Orderings(Range(value)) :
            load_desktop_app_map(order) = result

\* C18: load_desktop_app_map binds every candidate key to one descriptor, the
\* best of those that have the key: by rank (0 the id is the key, 1 the key is
\* a primary key, 2 one of id and key is a prefix of the other, 3 otherwise),
\* then by the smaller distance between the lengths of id and key, then by
\* the id; and the map is the same in whatever order the descriptors come.
C18_BestDescriptorAnyOrder ==
    /\ BoundToBest
    /\ OrderIndependent

-----------------------------------------------------------------------------
(* SpecSignal: Stop and Kill, signal_selected_application called on its own *)

MaxSignals == 1

\* a mutant of signal_targets: of the processes of the application only the
\* one with the lowest pid is signalled
signal_targets_lowest_pid(app_id, processes, desktop_apps) ==
    {pid \in app_pids(app_id, processes, desktop_apps) :
        \A other \in app_pids(app_id, processes, desktop_apps) : pid <= other}

\* the processes the loop of signal_selected_application calls kill_with on
signal_targets(app_id, processes, desktop_apps) ==
    app_pids(app_id, processes, desktop_apps)

\* Stop (Term) or Kill: without a selection the handler returns at once; else
\* the table is read again, the targets are signalled, whatever kill_with
\* returns, and refresh_processes runs.  A target still in the table at the
\* refresh was there to be signalled.
SignalSelectedApplication ==
    /\ pc = "idle"
    /\ Len(signals) < MaxSignals
    /\ \E signal \in {"Term", "Kill"} :
          IF ~is_some(selected_process) THEN UNCHANGED vars
          ELSE \E snapshot \in Shrunk(system), library \in SteamLibraries :
                  \E targets \in {signal_targets(selected_process.value.app_id,
                                      snapshot, desktop_apps_by_exec)} :
                      \E table \in Shrunk(snapshot) :
                          \E delivered \in {D \in SUBSET targets :
                                               targets \cap DOMAIN table \subseteq D},
                             refreshed \in {refresh_processes(table, library,
                                                steam_apps_by_id, steam_lookups)} :
                              /\ signals' = Append(signals,
                                    [signal |-> signal, pids |-> targets,
                                     observed |-> DOMAIN snapshot,
                                     delivered |-> delivered,
                                     chains_started |-> Len(chains)])
                              /\ system' = refreshed.system
                              /\ desktop_apps_by_exec' = refreshed.desktop_apps_by_exec
                              /\ steam_apps_by_id' = refreshed.steam_apps_by_id
                              /\ steam_lookups' = refreshed.steam_lookups
                              /\ contributors' = refreshed.contributors
                              /\ process_entries' \in
                                    {sort_process_entries(order, sort_state) :
                                        order \in Orderings(refreshed.entries)}
                              /\ UNCHANGED <<sort_state, selected_process, pureVars,
                                             pc, selected, launch_candidates,
                                             next_candidate, elapsed,
                                             observed_running, chains>>

NextSignal == OpenMenu \/ SignalSelectedApplication

SpecSignal == Init /\ [][NextSignal]_vars

\* the processes among observed that resolve to the application and, where
\* the owner of the monitor is known, belong to that owner
ResolvingOf(app_id, observed, processes, desktop_apps) ==
    {pid \in observed :
        /\ resolved_app_id_for_process(processes[pid],
               [p \in observed |-> processes[p]], desktop_apps) = Some(app_id)
        /\ SELF_PID \in observed /\ MonitorOwner # None
              => processes[pid].user_id = MonitorOwner}

\* the lists and caches are those of a refresh of the table now held
Reaggregated ==
    \E library \in SteamLibraries :
        \E refreshed \in {refresh_processes(system', library, steam_apps_by_id,
                                            steam_lookups)} :
            /\ desktop_apps_by_exec' = refreshed.desktop_apps_by_exec
            /\ steam_apps_by_id' = refreshed.steam_apps_by_id
            /\ contributors' = refreshed.contributors
            /\ process_entries' \in
                  {sort_process_entries(order, sort_state') :
                      order \in Orderings(refreshed.entries)}

\* a step of the handler with nothing selected changes neither the table nor
\* the entries and signals nothing; a signalling step signals, for the
\* selected application, every resolving process it observed, goes on
\* whether or not the deliveries succeeded, and ends with a refresh
StopKillStep ==
    /\ ~is_some(selected_process) =>
          UNCHANGED <<system, desktop_apps_by_exec, steam_apps_by_id,
                      process_entries, steam_lookups, contributors, signals>>
    /\ signals' # signals =>
          /\ is_some(selected_process)
          /\ selected_process' = selected_process
          /\ Len(signals') = Len(signals) + 1
          /\ SubSeq(signals', 1, Len(signals)) = signals
          /\ \E sent \in {signals'[Len(signals')]} :
                /\ sent.signal \in {"Term", "Kill"}
                /\ sent.observed \subseteq DOMAIN system
                /\ sent.pids = ResolvingOf(selected_process.value.app_id,
                                   sent.observed, system, desktop_apps_by_exec)
                /\ sent.delivered \subseteq sent.pids
                /\ DOMAIN system' \subseteq sent.observed
          /\ Reaggregated

\* C19: Stop and Kill signal every process of the monitor's user that
\* resolves to the selected application, take no notice of a delivery that
\* fails because the process is gone, and always end with a full refresh;
\* with nothing selected they signal nothing and refresh nothing.
C19_StopKill == [][StopKillStep]_vars

\* a signal went to two processes, one delivery failed, and the entries are
\* those of the table read afterwards
C19_Witness ==
    /\ Len(signals) = 1
    /\ Cardinality(signals[1].pids) = 2
    /\ Cardinality(signals[1].delivered) = 1
    /\ pc = "idle"
    /\ is_some(selected_process)
    /\ DOMAIN system # {}

\* a wait has lasted a whole number of polls and no longer than its limit
WaitWithinDeadline ==
    pc \in {"wait_term", "wait_kill"} =>
        /\ elapsed \in {100 * n : n \in 0..30}
        /\ elapsed <= (IF pc = "wait_term" THEN 3000 ELSE 1000)

\* a step of a wait: at the limit, or when no process of the table now read
\* resolves to the target, the wait is over; else it lasts 100 ms more
WaitStep ==
    pc \in {"wait_term", "wait_kill"} =>
        IF elapsed >= (IF pc = "wait_term" THEN 3000 ELSE 1000)
        THEN pc' = "launch"
        ELSE IF ResolvingOf(selected.value.app_id, DOMAIN system', system',
                            desktop_apps_by_exec) = {}
        THEN pc' = "launch" /\ elapsed' = elapsed
        ELSE pc' = pc /\ elapsed' = elapsed + 100

\* C20: a restart that has begun runs to its end: each wait is over as soon
\* as no process resolving to the target is seen and at the latest after 3
\* seconds (the first) or 1 second (the one after the KILL), polled every
\* 100 ms, so that restart_selected_application returns even if the target
\* never exits.
C20_RestartTerminates ==
    /\ []WaitWithinDeadline
    /\ [][WaitStep]_vars
    /\ (pc = "signal_term") ~> (pc = "done")

\* the target outlived both waits: the first lasted 3 seconds, the second 1
\* second, and the restart is done
C20_Witness ==
    /\ pc = "done"
    /\ Len(chains) = 2
    /\ chains[1].waited = 3000
    /\ chains[1].observed_running = Some(TRUE)
    /\ chains[2].waited = 1000
    /\ chains[2].observed_running = Some(TRUE)

-----------------------------------------------------------------------------
(* SpecKeys: exec_candidate_keys applied to an Exec line, a command or a    *)
(* name                                                                     *)

MaxParts == 3

KeyParts ==
    { <<"f", "o", "x">>, <<"B">>, <<"-">>, <<"_">>, <<"-", "d", "e", "v">>, <<"-", "b", "i", "n">>, <<"-", "b", "e", "t", "a">>, <<"-", "s", "t", "a", "b", "l", "e">>, <<"-", "b", "r", "o", "w", "s", "e", "r">>, <<"-", "d", "e", "s", "k", "t", "o", "p">>, <<"-", "a", "p", "p", "l", "e", "t">> }

KeyInputs ==
    {Concat(parts) : parts \in SeqsUpTo(KeyParts, MaxParts)}
        \cup { <<"/", "u", "s", "r", "/", "b", "i", "n", "/", "f", "o", "x", "-", "d", "e", "v", " ", "%", "u">>, <<"e", "n", "v", " ", "A", "=", "1", " ", "s", "h">>, <<"\"", "f", "o", "x", "-", "b", "i", "n", ".", "d", "e", "s", "k", "t", "o", "p", "\"">>, <<" ">> }

InitKeys ==
    /\ EngineIdle
    /\ RestartIdle
    /\ value \in KeyInputs
    /\ result = Pending
    /\ calls = 0
    /\ walk = NoWalk

ExecCandidateKeys ==
    /\ calls = 0
    /\ result' = exec_candidate_keys(value)
    /\ calls' = 1
    /\ UNCHANGED <<value, walk, engineVars, restartVars>>

NextKeys == ExecCandidateKeys

SpecKeys == InitKeys /\ [][NextKeys]_vars

\* each suffix of the list in turn taken off the end of the key, once
RECURSIVE StrippedOnce(_, _)
StrippedOnce(key, suffixes) ==
    IF suffixes = <<>> THEN key
    ELSE StrippedOnce(strip_suffix_or_self(key, Head(suffixes)), Tail(suffixes))

\* the channel suffixes and then the role suffixes, each taken off once
StatedAlias(key) ==
    StrippedOnce(StrippedOnce(key, CHANNEL_SUFFIXES), ROLE_SUFFIXES)

\* the primary key, and the alias if it is another key and not empty
StatedKeysOf(primary) ==
    IF ~is_some(primary) THEN <<>>
    ELSE IF StatedAlias(primary.value) \in {<<>>, primary.value}
    THEN <<primary.value>>
    ELSE <<primary.value, StatedAlias(primary.value)>>

\* no more than two keys, the normalized token first, none without it
PrimaryKeyFirst ==
    calls = 1 =>
        /\ Len(result) <= 2
        /\ IF is_some(normalize_exec_key(exec_token(value)))
           THEN /\ result # <<>>
                /\ result[1] = normalize_exec_key(exec_token(value)).value
           ELSE result = <<>>

\* C21: exec_candidate_keys returns at most two keys: the normalized primary
\* key first and, if it is another key and not empty, the alias left when the
\* channel suffixes and then the role suffixes are taken off, each at most
\* once and in that order; it returns no key for an input that reduces to
\* nothing.
C21_PrimaryAndAlias ==
    calls = 1 =>
        /\ Len(result) <= 2
        /\ result = StatedKeysOf(normalize_exec_key(exec_token(value)))

\* what a key is: lower case, no hyphen at either end, and normalized to
\* itself
IsNormalizedKey(key) ==
    /\ key # <<>>
    /\ to_lowercase(key) = key
    /\ key[1] # "-"
    /\ key[Len(key)] # "-"
    /\ normalize_exec_key(key) = Some(key)

\* C29: every key that exec_candidate_keys returns, the primary key and the
\* alias alike, is a normalized key: lower case, no hyphen at either end,
\* a fixed point of normalize_exec_key, also when hyphens follow one another
\* before a suffix that is taken off.
C29_KeysAreNormalized ==
    calls = 1 => \A i \in 1..Len(result) : IsNormalizedKey(result[i])

\* the primary key by itself is always a normalized key
PrimaryIsNormalized ==
    calls = 1 /\ result # <<>> => IsNormalizedKey(result[1])

-----------------------------------------------------------------------------
(* The keys flagged primary *)

\* the keys of a descriptor that come from its Exec line or its window class
ExecAndClassKeys(app) ==
    (IF is_some(app.exec) THEN Range(exec_candidate_keys(app.exec.value)) ELSE {})
        \cup (IF is_some(app.wm_class)
              THEN Range(exec_candidate_keys(app.wm_class.value)) ELSE {})

\* the keys of a descriptor that come from the suffixes of its MIME types
MimeKeys(app) ==
    UNION {Range(exec_candidate_keys(mime_suffix(app.mime_types[i]))) :
               i \in 1..Len(app.mime_types)}

\* the keys stated to be primary: those of the Exec line and the window
\* class, and the id key for a descriptor that has neither
StatedPrimaryKeys(app) ==
    IF ExecAndClassKeys(app) = {} THEN app_id_keys(app)
    ELSE ExecAndClassKeys(app)

\* the descriptor a bound meta was built from
DescriptorOf(meta, apps) == {app \in Range(apps) : meta.desktop_entry_id = Some(app.id)}

\* C22: the keys flagged primary for a descriptor are those derived from its
\* Exec line and from its window class; a key it has only from the suffix of
\* a MIME type (or only from its id, when it has Exec or window-class keys)
\* is a candidate key but not a primary one, and so does not give the
\* descriptor rank 1 for that key.
C22_PrimaryFromExecAndClass ==
    calls = 1 =>
        \A key \in DOMAIN result :
            \A app \in DescriptorOf(result[key], value) :
                /\ result[key].primary_exec_keys = StatedPrimaryKeys(app)
                /\ rank(result[key], key) = 1 => key \in ExecAndClassKeys(app)

\* the keys of the Exec line and of the window class are always flagged, and
\* the id key is not flagged when there are other keys
PrimaryHoldsExecAndClass ==
    calls = 1 =>
        \A key \in DOMAIN result :
            \A app \in DescriptorOf(result[key], value) :
                /\ ExecAndClassKeys(app) \subseteq result[key].primary_exec_keys
                /\ result[key].primary_exec_keys \subseteq
                       ExecAndClassKeys(app) \cup MimeKeys(app) \cup app_id_keys(app)
                /\ ExecAndClassKeys(app) \cup MimeKeys(app) # {} =>
                       result[key].primary_exec_keys =
                           ExecAndClassKeys(app) \cup MimeKeys(app)

-----------------------------------------------------------------------------
(* SpecToken: extract_match_token applied to a command line *)

MaxFlags == 3

\* nothing, env alone, env with an assignment, with a flag and an assignment,
\* by path and in capitals with a flag
EnvPrefixes ==
    { <<>>, << <<"e", "n", "v">> >>, << <<"e", "n", "v">>, <<"A", "=", "1">> >>, << <<"e", "n", "v">>, <<"-", "u">>, <<"A", "=", "1">> >>, << <<"/", "u", "s", "r", "/", "b", "i", "n", "/", "E", "N", "V">>, <<"-", "i">> >> }

PlainCommands ==
    { <<"s", "h">>, <<"b", "a", "s", "h">>, <<"z", "s", "h">>, <<"f", "i", "s", "h">>, <<"s", "t", "e", "a", "m">>, <<"g", "t", "k", "-", "l", "a", "u", "n", "c", "h">>, <<"x", "d", "g", "-", "o", "p", "e", "n">>, <<"/", "b", "i", "n", "/", "S", "H">>, <<"f", "o", "x">>, <<"/", "u", "s", "r", "/", "b", "i", "n", "/", "f", "o", "x">>, <<"f", "l", "a", "t", "p", "a", "k">>, <<"e", "n", "v">> }

\* the flags that take a separate value, a flag that takes none, a flag with
\* its value attached, a value
FlatpakTokens ==
    { <<"-", "-", "a", "r", "c", "h">>, <<"-", "-", "b", "r", "a", "n", "c", "h">>, <<"-", "-", "c", "o", "m", "m", "a", "n", "d">>, <<"-", "-", "f", "i", "l", "e", "-", "f", "o", "r", "w", "a", "r", "d", "i", "n", "g">>, <<"-", "-", "u", "s", "e", "r">>, <<"-", "-", "c", "o", "m", "m", "a", "n", "d", "=", "s", "h">>, <<"x", "8", "6">> }

FlatpakTails == { <<>>, << <<"o", "r", "g", ".", "a", "p", "p">> >>, << <<"o", "r", "g", ".", "a", "p", "p">>, <<"-", "v">> >> }

CommandTails ==
    {<<>>, << <<"f", "l", "a", "t", "p", "a", "k">>, <<"i", "n", "s", "t", "a", "l", "l">>, <<"o", "r", "g", ".", "a", "p", "p">> >>, << <<"F", "L", "A", "T", "P", "A", "K">>, <<"R", "u", "n">>, <<"o", "r", "g", ".", "a", "p", "p">> >>}
        \cup {<<command>> : command \in PlainCommands}
        \cup {<<command, <<"%", "u">> >> : command \in PlainCommands}
        \cup {<< <<"f", "l", "a", "t", "p", "a", "k">>, <<"r", "u", "n">> >> \o flags \o tail :
                 flags \in SeqsUpTo(FlatpakTokens, MaxFlags), tail \in FlatpakTails}

CommandLines ==
    {join_space(prefix \o tail) : prefix \in EnvPrefixes, tail \in CommandTails}
        \cup { <<" ", " ", "e", "n", "v", "\t", "A", "=", "1", " ", " ", "f", "o", "x", " ">>, <<"\t">> }

InitToken ==
    /\ EngineIdle
    /\ RestartIdle
    /\ value \in CommandLines
    /\ result = Pending
    /\ calls = 0
    /\ walk = NoWalk

ExtractMatchToken ==
    /\ calls = 0
    /\ result' = extract_match_token(value)
    /\ calls' = 1
    /\ UNCHANGED <<value, walk, engineVars, restartVars>>

NextToken == ExtractMatchToken

SpecToken == InitToken /\ [][NextToken]_vars

IsFlag(token) == token # <<>> /\ token[1] = "-"

IsAssignment(token) == \E i \in 1..Len(token) : token[i] = "="

\* the token names the command, by whatever path and in whatever case
CommandIs(token, name) == command_stem(token) = name

Least(S) == CHOOSE i \in S : \A j \in S : i <= j

\* where the leading command is: the first token, or after env the first
\* token that is neither an assignment nor a flag; Len(tokens) + 1 if none
LeadingCommand(tokens) ==
    IF ~CommandIs(tokens[1], <<"e", "n", "v">>) THEN 1
    ELSE Least({i \in 2..(Len(tokens) + 1) :
                   \/ i = Len(tokens) + 1
                   \/ ~(IsFlag(tokens[i]) \/ IsAssignment(tokens[i]))})

\* after flatpak run at tokens[at], tokens[at + 1]: the tokens that are no
\* flag and not the separate value of one of the four flags
WrappedTargets(tokens, at) ==
    {j \in (at + 2)..Len(tokens) :
        /\ ~IsFlag(tokens[j])
        /\ j - 1 >= at + 2 => tokens[j - 1] \notin
               { <<"-", "-", "a", "r", "c", "h">>, <<"-", "-", "b", "r", "a", "n", "c", "h">>, <<"-", "-", "c", "o", "m", "m", "a", "n", "d">>, <<"-", "-", "f", "i", "l", "e", "-", "f", "o", "r", "w", "a", "r", "d", "i", "n", "g">> }}

IsFlatpakRun(tokens, at) ==
    /\ at + 1 <= Len(tokens)
    /\ CommandIs(tokens[at], <<"f", "l", "a", "t", "p", "a", "k">>)
    /\ CommandIs(tokens[at + 1], <<"r", "u", "n">>)

\* the token stated for the command line whose leading command is tokens[at]
StatedTokenAt(tokens, at) ==
    IF at > Len(tokens) THEN None
    ELSE IF IsFlatpakRun(tokens, at) /\ WrappedTargets(tokens, at) # {}
    THEN Some(tokens[Least(WrappedTargets(tokens, at))])
    ELSE IF \E name \in { <<"s", "h">>, <<"b", "a", "s", "h">>, <<"z", "s", "h">>, <<"f", "i", "s", "h">>, <<"s", "t", "e", "a", "m">>, <<"g", "t", "k", "-", "l", "a", "u", "n", "c", "h">>, <<"x", "d", "g", "-", "o", "p", "e", "n">> } :
                CommandIs(tokens[at], name)
    THEN None
    ELSE Some(tokens[at])

StatedToken(tokens) ==
    IF tokens = <<>> THEN None ELSE StatedTokenAt(tokens, LeadingCommand(tokens))

\* C23: extract_match_token steps over a leading env with its assignments
\* and flags (no token if nothing is left); after flatpak run it steps over
\* every flag and over the separate value of --arch, --branch, --command and
\* --file-forwarding and returns the first token left, the wrapped target;
\* for sh, bash, zsh, fish, steam, gtk-launch and xdg-open as leading command
\* it returns no token; otherwise it returns the leading command token.
C23_MatchToken ==
    calls = 1 => result = StatedToken(split_whitespace(value))

\* env A=1 flatpak run --arch x86 --user org.app gives org.app
C23_Witness ==
    /\ calls = 1
    /\ value = <<"e", "n", "v", " ", "A", "=", "1", " ", "f", "l", "a", "t", "p", "a", "k", " ", "r", "u", "n", " ", "-", "-", "a", "r", "c", "h", " ", "x", "8", "6", " ", "-", "-", "u", "s", "e", "r", " ", "o", "r", "g", ".", "a", "p", "p">>
    /\ result = Some( <<"o", "r", "g", ".", "a", "p", "p">> )

-----------------------------------------------------------------------------
(* SpecShell: refreshes and sort toggles in a session in which components *)
(* of the desktop shell run                                                *)

InitShell == InitOn(ShellTables)

TickShell == TickOn(ShellTables)

NextShell == TickShell \/ ToggleSort

SpecShell == InitShell /\ [][NextShell]_vars

\* the text holds the part
HasPart(text, part) ==
    \E i \in 0..(Len(text) - Len(part)) : SubSeq(text, i + 1, i + Len(part)) = part

\* the id holds one of the excluded-component substrings
NamesExcludedComponent(app_id) ==
    \E part \in { <<"c", "o", "s", "m", "i", "c", "a", "p", "p", "l", "e", "t">>, <<"c", "o", "s", "m", "i", "c", "-", "a", "p", "p", "l", "e", "t">>, <<"c", "o", "s", "m", "i", "c", "-", "p", "a", "n", "e", "l", "-", "b", "u", "t", "t", "o", "n">>, <<"c", "o", "s", "m", "i", "c", "-", "s", "t", "a", "t", "u", "s", "-", "a", "r", "e", "a">>, <<"c", "o", "s", "m", "i", "c", "-", "n", "o", "t", "i", "f", "i", "c", "a", "t", "i", "o", "n", "s">>, <<"c", "o", "s", "m", "i", "c", "-", "o", "s", "d">>, <<"c", "o", "s", "m", "i", "c", "-", "w", "o", "r", "k", "s", "p", "a", "c", "e", "s">>, <<"c", "o", "s", "m", "i", "c", "-", "l", "a", "u", "n", "c", "h", "e", "r">>, <<"c", "o", "s", "m", "i", "c", "-", "g", "r", "e", "e", "t", "e", "r">>, <<"x", "d", "g", "-", "d", "e", "s", "k", "t", "o", "p", "-", "p", "o", "r", "t", "a", "l">>, <<"d", "a", "e", "m", "o", "n">> } :
        HasPart(app_id, part)

\* the processes of the table that resolve to an excluded id
ResolvingToExcluded ==
    {pid \in DOMAIN system :
        /\ ExpectedIdentity(pid, system, desktop_apps_by_exec) # None
        /\ NamesExcludedComponent(
               ExpectedIdentity(pid, system, desktop_apps_by_exec).value)}

\* C24: no aggregated entry has an application id that holds one of the
\* excluded-component substrings; a process that resolves to such an id is
\* dropped after resolution and contributes to the metrics of no entry.
C24_ExcludedDropped ==
    /\ \A i \in 1..Len(process_entries) :
          ~NamesExcludedComponent(process_entries[i].app_id)
    /\ \A app_id \in DOMAIN contributors :
          contributors[app_id] \cap ResolvingToExcluded = {}
    /\ \A i \in 1..Len(process_entries) :
          /\ process_entries[i].app_id \in DOMAIN contributors
          /\ SummarisesMembers(process_entries[i],
                               contributors[process_entries[i].app_id])

\* the browser, the portal and the daemon front end run, all eligible; the
\* one entry is the browser's, with its own figures
C24_Witness ==
    /\ DOMAIN system = {20, 50, 51}
    /\ eligible_pids(system) = {20, 50, 51}
    /\ ResolvingToExcluded = {50, 51}
    /\ Len(process_entries) = 1
    /\ process_entries[1].app_id = <<"f", "i", "r", "e", "f", "o", "x">>
    /\ process_entries[1].rss_bytes = 900
    /\ process_entries[1].threads = 3

-----------------------------------------------------------------------------
(* SpecExec: spawn_desktop_exec applied to an Exec line *)

ExecParts == { <<"a">>, <<" ">>, <<"%">>, <<"%", "%">>, <<"%", "f">>, <<"%", "U">>, <<"f">>, <<"%", "c">> }

ExecLines == {Concat(parts) : parts \in SeqsUpTo(ExecParts, MaxParts)}

InitExec ==
    /\ EngineIdle
    /\ RestartIdle
    /\ value \in ExecLines
    /\ result = Pending
    /\ calls = 0
    /\ walk = NoWalk

\* spawn_desktop_exec: the command handed to sh -lc, if any, and whether the
\* spawn succeeded
SpawnDesktopExec ==
    /\ calls = 0
    /\ \E launched \in spawn_outcomes(LaunchCandidate("DesktopExec", value, <<>>)) :
          result' = [command |-> non_empty(sanitized_exec_of(value)),
                     launched |-> launched]
    /\ calls' = 1
    /\ UNCHANGED <<value, walk, engineVars, restartVars>>

NextExec == SpawnDesktopExec

SpecExec == InitExec /\ [][NextExec]_vars

FieldCodeLetters == {"f", "F", "u", "U", "d", "D", "n", "N", "k", "v", "m", "i", "c"}

\* the Exec line read from the left: %% is a percent sign, % with a field
\* code letter is a field code and is left out, all else stands for itself
RECURSIVE Unescaped(_)
Unescaped(exec) ==
    IF exec = <<>> THEN <<>>
    ELSE IF Len(exec) >= 2 /\ exec[1] = "%" /\ exec[2] = "%"
    THEN <<"%">> \o Unescaped(SubSeq(exec, 3, Len(exec)))
    ELSE IF Len(exec) >= 2 /\ exec[1] = "%" /\ exec[2] \in FieldCodeLetters
    THEN Unescaped(SubSeq(exec, 3, Len(exec)))
    ELSE <<exec[1]>> \o Unescaped(Tail(exec))

\* the command stated for the Exec line
StatedCommand(exec) == trim(Unescaped(exec))

\* C25: spawn_desktop_exec runs the Exec line without its field codes and
\* with every %% turned into one %, a %% before a field-code letter (%%f)
\* staying a percent sign followed by that letter; if nothing is left after
\* trimming, the candidate fails and nothing is spawned.
C25_SanitizedExec ==
    calls = 1 =>
        /\ result.command = non_empty(StatedCommand(value))
        /\ result.command = None => ~result.launched

\* a %% stands before a field-code letter
EscapedBeforeLetter(exec) ==
    \E letter \in FieldCodeLetters : HasPart(exec, <<"%", "%", letter>>)

\* on the lines without %% before a field-code letter the command is the
\* stated one
SanitizedUnlessEscaped ==
    calls = 1 /\ ~EscapedBeforeLetter(value) =>
        /\ result.command = non_empty(StatedCommand(value))
        /\ result.command = None => ~result.launched

-----------------------------------------------------------------------------
(* SpecMonitor: refreshes, sort toggles, and Stop and Kill on a selection *)

\* the monitor, the browser and a game whose figures tie with the browser's
MONITOR_PIDS == {10, 20, 32}

MonitorTables ==
    TablesOf({S \in SUBSET MONITOR_PIDS : Cardinality(S) <= MaxProcs})

InitMonitor == InitOn(MonitorTables)

TickMonitor == TickOn(MonitorTables)

NextMonitor ==
    TickMonitor \/ ToggleSort \/ OpenMenu \/ SignalSelectedApplication

SpecMonitor == InitMonitor /\ [][NextMonitor]_vars

\* a goes before b by name: without regard to case first, then as written
NameBefore(a, b) ==
    \/ cmp_str(to_lowercase(a.name), to_lowercase(b.name)) < 0
    \/ /\ to_lowercase(a.name) = to_lowercase(b.name)
       /\ cmp_str(a.name, b.name) < 0

\* a goes before b on the column, ascending
ColumnBefore(a, b, column) ==
    CASE column = "Name" -> NameBefore(a, b)
      [] column = "Cpu" -> a.cpu_percent < b.cpu_percent
      [] column = "Pid" -> a.pid < b.pid
      [] column = "Ram" -> a.rss_bytes < b.rss_bytes
      [] column = "Threads" -> a.threads < b.threads

\* a may stand right before b: it goes first on the active column in the
\* active direction, or they tie there and a goes first by the tie-breaks or
\* ties on them too
InOrder(a, b, sort) ==
    \/ sort.direction = "Asc" /\ ColumnBefore(a, b, sort.column)
    \/ sort.direction = "Desc" /\ ColumnBefore(b, a, sort.column)
    \/ /\ ~ColumnBefore(a, b, sort.column)
       /\ ~ColumnBefore(b, a, sort.column)
       /\ ~TieBreakBefore(b, a)

\* C26: after every refresh, every sort toggle and every Stop or Kill the
\* entries stand in the order of the current sort state: no two neighbours
\* are out of order under the active column, its direction and the
\* tie-breaks.
C26_EntriesSorted ==
    \A i \in 1..(Len(process_entries) - 1) :
        InOrder(process_entries[i], process_entries[i + 1], sort_state)

\* after a Stop or Kill under a sort state chosen by toggles two entries are
\* left, in descending order of pid
C26_Witness ==
    /\ Len(signals) = 1
    /\ is_some(selected_process)
    /\ sort_state = [column |-> "Pid", direction |-> "Desc"]
    /\ Len(process_entries) = 2
    /\ process_entries[1].pid > process_entries[2].pid

-----------------------------------------------------------------------------
(* SpecStop: Stop and Kill in a session in which a game runs a helper *)

\* the monitor, the browser, a game and the helper process the game started
STOP_PIDS == {10, 20, 32, 33}

StopTables ==
    TablesOf({S \in SUBSET STOP_PIDS : Cardinality(S) <= MaxProcs + 1})

InitStop == InitOn(StopTables)

SpecStop == InitStop /\ [][NextSignal]_vars

\* the signal of this step, sent on the table the entries were computed from
SentOnSameTable(sent) ==
    /\ signals' = Append(signals, sent)
    /\ sent.observed = DOMAIN system

\* the processes folded into the selected entry
FoldedIntoSelected ==
    IF selected_process.value.app_id \in DOMAIN contributors
    THEN contributors[selected_process.value.app_id] ELSE {}

\* C27: on one process table and registry, Stop and Kill signal for the
\* selected entry exactly the processes whose figures were folded into that
\* entry: a process left out of the aggregation (a background component, one
\* without executable path or with a bracketed name) is not signalled, nor
\* is one that resolves to another id or to none.
C27_SignalledAreFolded ==
    [][\A sent \in {signals'[i] : i \in 1..Len(signals')} :
          SentOnSameTable(sent) => sent.pids = FoldedIntoSelected]_vars

\* the folded processes are all signalled, and every signalled process
\* resolves to the selected id
FoldedAreSignalled ==
    [][\A sent \in {signals'[i] : i \in 1..Len(signals')} :
          SentOnSameTable(sent) =>
              /\ FoldedIntoSelected \subseteq sent.pids
              /\ \A pid \in sent.pids :
                    resolved_app_id_for_process(system[pid], system,
                        desktop_apps_by_exec) = Some(selected_process.value.app_id)]_vars

-----------------------------------------------------------------------------
(* The launch candidates of a restart *)

\* the step that begins a restart builds the list from the selection and the
\* table of that moment, and sends no signal
BuiltBeforeTerm ==
    pc = "idle" /\ pc' # "idle" =>
        /\ is_some(selected_process)
        /\ selected' = selected_process
        /\ launch_candidates' =
              launch_candidates_for_selected(selected_process.value,
                  desktop_apps_by_exec, system')
        /\ signals = <<>>
        /\ signals' = <<>>

\* once the restart has begun, neither the list nor the selection it was
\* built for changes
KeptWhileRestarting ==
    pc # "idle" => launch_candidates' = launch_candidates /\ selected' = selected

\* every chain has tried the candidates of the list, from its first on
ChainsRunTheList ==
    \A c \in 1..Len(chains) :
        /\ Len(chains[c].attempts) <= Len(launch_candidates)
        /\ \A k \in 1..Len(chains[c].attempts) :
              chains[c].attempts[k].candidate = launch_candidates[k]

\* C28: restart_selected_application builds its launch candidates, the live
\* process's command and executable among them, before it sends TERM, and
\* runs that same list in the first relaunch and in the retry after KILL; the
\* list is not built again once the target was signalled, and what becomes
\* of the selection during the restart does not alter it.
C28_CandidatesBuiltOnce ==
    /\ [][BuiltBeforeTerm]_vars
    /\ [][KeptWhileRestarting]_vars
    /\ []ChainsRunTheList

\* both chains tried the command of the process that was selected, which is
\* gone by now: built from the present table the list would be another
C28_Witness ==
    /\ pc = "done"
    /\ Len(chains) = 2
    /\ \A c \in 1..2 :
          \E k \in 1..Len(chains[c].attempts) :
              chains[c].attempts[k].candidate.kind = "Command"
    /\ selected.value.pid \notin DOMAIN system
    /\ launch_candidates #
          launch_candidates_for_selected(selected.value, desktop_apps_by_exec,
                                         system)

-----------------------------------------------------------------------------
(* The entries of a tick *)

\* the processes of the table now held that are eligible, have candidate
\* keys and resolve to the id
ResolvingEligible(app_id) ==
    {pid \in eligible_pids(system) :
        /\ candidate_keys_by_pid[pid] # <<>>
        /\ ExpectedIdentity(pid, system, desktop_apps_by_exec) = Some(app_id)}

\* C30: in every tick a process contributes to at most one entry, so the
\* processes are partitioned among the entries and the representative pids
\* of distinct entries differ; the entries are computed from the process
\* table, registry and Steam cache of that tick alone: an application none of
\* whose eligible processes is in the table now has no entry, whatever the
\* tick before showed.
C30_EntriesOfThisTick ==
    /\ \A a, b \in DOMAIN contributors :
          a # b => contributors[a] \cap contributors[b] = {}
    /\ \A i, j \in 1..Len(process_entries) :
          i # j => /\ process_entries[i].app_id # process_entries[j].app_id
                   /\ process_entries[i].pid # process_entries[j].pid
    /\ \A i \in 1..Len(process_entries) :
          /\ process_entries[i].app_id \in DOMAIN contributors
          /\ process_entries[i].pid \in contributors[process_entries[i].app_id]
          /\ ResolvingEligible(process_entries[i].app_id) # {}
          /\ contributors[process_entries[i].app_id]
                = ResolvingEligible(process_entries[i].app_id)

\* a game was seen in an earlier tick (it is in the Steam cache); the table
\* now holds the two browser processes, and the one entry is the browser's
C30_Witness ==
    /\ <<"4", "4", "0">> \in DOMAIN steam_apps_by_id
    /\ DOMAIN system = {20, 21}
    /\ Len(process_entries) = 1
    /\ process_entries[1].app_id = <<"f", "i", "r", "e", "f", "o", "x">>
    /\ process_entries[1].pid = 20
    /\ contributors[ <<"f", "i", "r", "e", "f", "o", "x">> ] = {20, 21}

====
